---- MODULE Spec2Model ----
(***************************************************************************)
(* Cerberus USB watchdog (RP2040, two cores).                              *)
(*                                                                         *)
(* Core 0 runs setup() and loop(): the integrity gate, the honeypot mass   *)
(* storage device and the reporting loop with the serial command shell.    *)
(* Core 1 runs setup1() and loop1(): the USB host stack and its callbacks  *)
(* (device attach/detach, HID reports, the typing-rate detector).          *)
(*                                                                         *)
(* Line numbers refer to src/Software/README.md (firmware 0.4.0) unless    *)
(* Cerberus.ino is named.                                                  *)
(***************************************************************************)
EXTENDS Integers, Sequences, FiniteSets, TLC

\* ------------------------------------------------------------------------
\* Program constants
\* ------------------------------------------------------------------------
DISK_BLOCK_NUM == 336
FAKE_DISK_BLOCK_NUM == 2048
DISK_BLOCK_SIZE == 512
BLOCK_AUTORUN == 102
BLOCK_README == 100
BYTES_TO_HASH == 1024
BYTES_TO_HASH_OFFSET == 7
DISK_LABEL_SKIP == 11
FAT_DIRECTORY_BLOCK == 7
WRITE_NOISE_LBA == 10
TOMBSTONE == 229
QUEUE_CAPACITY == 16
DISPLAY_MSG_SIZE == 64
HID_SPEED_WINDOW_MS == 1000
HID_SPEED_THRESHOLD == 40
CTRL_SPURIOUS_THRESHOLD == 3
CTRL_SEQ_MAX == 255
KEYCODE_SLOTS == 6
SERIAL_BUFFER_SIZE == 64
KEYCODE_TABLE_SIZE == 128

\* ------------------------------------------------------------------------
\* Bounds of the model
\* ------------------------------------------------------------------------
MaxXferBlocks == 3      \* a transfer is 1..MaxXferBlocks blocks long
MaxMscOps == 2          \* honeypot calls per run in SpecMsc
MaxPayload == 5         \* distinct write payloads in SpecMsc
TickMs == 1001          \* one step of the millisecond clock
MaxTicks == 2           \* clock steps per run
MaxHidEvents == 1       \* HID reports per mount in Spec
MaxKeys == 1            \* keys counted in the forensics record per run in Spec
MaxHostOps == 1         \* honeypot calls per run in Spec
MaxWindowKeys == 45     \* a window that has counted more keys than this takes no further report
MaxRateReports == 10    \* HID reports per run in SpecRate
MaxKbdReports == 7      \* HID reports per run in SpecKbd
HistLen == 4            \* key-bearing reports kept in kbd_hist
MaxPushes == 17         \* enqueue_display calls per run in SpecBus
MaxAlertKeys == 54      \* keys counted in the forensics record per run in SpecAlert
MemSlack == 16          \* bytes of memory described past the end of a string buffer
MaxUnits == 4           \* units of the strings whose every content is tried
MaxWrites == 3          \* honeypot writes per run in SpecLatch
MaxPages == 1           \* page turns of the descriptor view per visit in SpecView
MaxCtrlReports == 257   \* HID reports per run in SpecCtrl

VARIABLES
  now,                  \* to_ms_since_boot(get_absolute_time())
  pc0,                  \* core 0: "setup", "halted", or a position in loop()
  pc1,                  \* core 1: "setup1", "idle" (loop1), or a position in a callback
  flash_bad,            \* blocks of the flashed disk image that differ from the released image
  msc_wr,               \* msc_disk: blocks overwritten since the image was loaded
  computed_hash,        \* setup(): XXH32 of the hashed range (0 before setup)
  msc_started,          \* usb_msc.begin() has been called
  buffer,               \* the caller's buffer after the last honeypot call
  access,               \* the byte range of msc_disk the last honeypot call dereferenced
  ret,                  \* return value of the last honeypot call
  msc_ops,              \* number of honeypot calls serviced
  readme, autorun, written, deleted,
  written_reported, deleted_reported,
  hid_sent, hid_reported, usbkiller,
  hid_event_num,
  current_gui_message,
  hid_window_start, hid_window_count, hid_current_speed,
  hid_speed_alert, hid_speed_reported,
  kbd,                  \* statics of process_kbd_report: prev_report, ctrl_seq_count, ctrl_is_spurious
  cb,                   \* core 1: the keyboard report whose callback is in progress
  hid_mounted,          \* a HID interface is mounted on the host port
  last_device,          \* the forensics record (.noinit)
  display_queue,        \* the cross-core queue
  q_ret,                \* return value of the last queue_try_add / queue_try_remove
  kbd_out,              \* what process_kbd_report printed for the last report, key by key
  kbd_hist,             \* the last reports with a key in them, with what was printed
  shown,                \* alerts surfaced by loop() in the current speed-alert episode
  suspicious_device, suspicious_reported, suspicious_name,
  dev_info,             \* dev_info[daddr - 1] of the device on the host port
  verbose_mode, show_hexdump, show_hid_debug,
  serial_out,           \* what the command shell printed for the last serial line
  descriptor_view_active, descriptor_page,
  rst_prev, ok_prev,    \* statics of loop(): the button levels it saw last (TRUE is HIGH)
  strbuf,               \* the string-descriptor buffer utf16_to_utf8 last worked on
  writers,              \* for each cross-context field, the contexts that have written it
  ev                    \* the handler that ran last

vars == << now, pc0, pc1, flash_bad, msc_wr, computed_hash, msc_started, buffer,
           access, ret, msc_ops, readme, autorun, written, deleted,
           written_reported, deleted_reported, hid_sent, hid_reported, usbkiller,
           hid_event_num, current_gui_message, hid_window_start, hid_window_count,
           hid_current_speed, hid_speed_alert, hid_speed_reported, kbd, cb,
           hid_mounted, last_device, display_queue, q_ret, kbd_out, kbd_hist, shown,
           suspicious_device, suspicious_reported, suspicious_name, dev_info,
           verbose_mode, show_hexdump, show_hid_debug, serial_out,
           descriptor_view_active, descriptor_page, rst_prev, ok_prev, strbuf, writers, ev >>

\* groups, for UNCHANGED
clockVars == << now >>
bootVars  == << flash_bad, computed_hash, msc_started >>
mscVars   == << msc_wr, buffer, access, ret, msc_ops >>
baitVars  == << readme, autorun, written, deleted >>
latchVars == << written_reported, deleted_reported >>
hidVars   == << hid_sent, hid_reported, hid_event_num, hid_mounted >>
speedVars == << hid_window_start, hid_window_count, hid_current_speed,
                hid_speed_alert, hid_speed_reported, shown >>
kbdVars   == << kbd, cb, kbd_out, kbd_hist >>
queueVars == << display_queue, q_ret >>
suspVars  == << suspicious_device, suspicious_reported, suspicious_name >>
viewVars  == << descriptor_view_active, descriptor_page, rst_prev, ok_prev >>
shellVars == << verbose_mode, show_hexdump, show_hid_debug, serial_out, viewVars >>

\* ------------------------------------------------------------------------
\* The two sides of the shared state
\* ------------------------------------------------------------------------
\* The globals of lines 148-208 that both the acquisition side (the USB host
\* callbacks of core 1, the honeypot callbacks) and the reporting side
\* (loop() and the command shell) can see.
SharedFields ==
  [readme |-> readme, autorun |-> autorun, written |-> written, deleted |-> deleted,
   hid_sent |-> hid_sent, suspicious_device |-> suspicious_device,
   written_reported |-> written_reported, deleted_reported |-> deleted_reported,
   hid_reported |-> hid_reported, suspicious_reported |-> suspicious_reported,
   hid_speed_reported |-> hid_speed_reported, hid_speed_alert |-> hid_speed_alert,
   hid_event_num |-> hid_event_num, hid_window_count |-> hid_window_count,
   hid_events |-> last_device.hid_events,
   hid_current_speed |-> hid_current_speed, max_hid_speed |-> last_device.max_hid_speed,
   verbose_mode |-> verbose_mode, show_hexdump |-> show_hexdump,
   show_hid_debug |-> show_hid_debug, current_gui_message |-> current_gui_message]

\* writers is kept only in the behaviours that start with a field set
NoWriters == [f \in {} |-> {}]
FreshWriters == [f \in DOMAIN SharedFields |-> {}]

\* the handler of side ctx has run: it has written the fields it changed
Track(ctx) ==
  writers' = [f \in DOMAIN writers |->
                IF SharedFields'[f] # SharedFields[f] THEN writers[f] \cup {ctx}
                ELSE writers[f]]

Bytes == 0..255
U16(n) == n % 65536

\* ------------------------------------------------------------------------
\* The disk image and the integrity gate
\* ------------------------------------------------------------------------
\* Content of one 512-byte block, as a pair: <<"img", b>> is block b of the
\* released image, <<"bad", b>> a block b that differs from it, <<"wr", p>> a
\* block holding write payload p, <<"stale", 0>> what the caller's buffer held
\* before the call, <<"oob", b>> memory past the end of msc_disk.
ImageBlock(b) == IF b \in flash_bad THEN <<"bad", b>> ELSE <<"img", b>>

\* msc_disk[b], for 0 <= b < DISK_BLOCK_NUM
msc_disk(b) == IF b \in DOMAIN msc_wr THEN msc_wr[b] ELSE ImageBlock(b)

\* The blocks the hashed byte range msc_disk[7] + 11 .. + BYTES_TO_HASH touches.
HashedBlocks ==
  LET first == BYTES_TO_HASH_OFFSET * DISK_BLOCK_SIZE + DISK_LABEL_SKIP
      last  == first + BYTES_TO_HASH - 1
  IN  (first \div DISK_BLOCK_SIZE) .. (last \div DISK_BLOCK_SIZE)

\* line 328: 2362816530, a uint32_t, as its two 16-bit halves <<high, low>>
valid_hash == <<36053, 47122>>

\* XXH32 over the hashed range, idealised as collision-free: the burned-in
\* value for the released image's bytes, another value for any other bytes.
XXH32(data) ==
  IF \A b \in DOMAIN data : data[b] = <<"img", b>> THEN valid_hash
  ELSE <<valid_hash[1], U16(valid_hash[2] + 1)>>

\* A text of len characters, as strncpy(dst, str, 63) leaves it in a char[64]
\* (lines 686-687, 714-715): text and n name it, len is its length.
\* n and s are the number and the string a format prints into it.
MsgF(text, n, s, len) ==
  [text |-> text, n |-> n, s |-> s,
   len |-> IF len < DISPLAY_MSG_SIZE - 1 THEN len ELSE DISPLAY_MSG_SIZE - 1]

Msg(text, n, len) == MsgF(text, n, "", len)

\* strncpy(dst, src, n) of a string of len characters: its first n characters
strncpy(text, len, n) == [text |-> text, len |-> IF len < n THEN len ELSE n]

\* ------------------------------------------------------------------------
\* String descriptors: utf16_to_utf8, lines 970-1016
\* ------------------------------------------------------------------------
\* A buffer is the sequence of its bytes together with the bytes that follow it
\* in memory; the byte at offset a is mem[a + 1].

\* the larger of two extents
Extent(a, b) == IF a > b THEN a ELSE b

\* lines 977-987: the bytes emitted for one UTF-16 unit
utf8_of(chr) ==
  IF chr < 128 THEN << chr % 256 >>
  ELSE IF chr < 2048 THEN << 192 + ((chr \div 64) % 32), 128 + (chr % 64) >>
  ELSE << 224 + ((chr \div 4096) % 16), 128 + ((chr \div 64) % 64), 128 + (chr % 64) >>

\* utf16[i] of lines 976 and 995, with utf16 = temp_buf + 1: the little-endian
\* unit at byte offset 2 + 2 i
unit_at(mem, i) == mem[2 * i + 3] + 256 * mem[2 * i + 4]

\* line 1010: ((temp_buf[0] & 0xff) - 2) / sizeof(uint16_t). The subtraction
\* is done in int, the division in size_t (32 bits): a length byte below 2
\* wraps to 4294967294 / 2 or 4294967295 / 2.
utf16_len_of(bLength) == IF bLength >= 2 THEN (bLength - 2) \div 2 ELSE 2147483647

\* _count_utf8_bytes, lines 992-1006, from unit i on; off is set when a unit
\* lies past the memory described here
RECURSIVE count_utf8_bytes(_, _, _, _)
count_utf8_bytes(mem, len, i, total) ==
  IF i = len THEN [total |-> total, rd |-> 2 * i + 2, off |-> FALSE]
  ELSE IF 2 * i + 4 > Len(mem) THEN [total |-> total, rd |-> 2 * i + 4, off |-> TRUE]
  ELSE count_utf8_bytes(mem, len, i + 1, total + Len(utf8_of(unit_at(mem, i))))

\* the bytes out written into mem from offset w on
Poke(mem, w, out) ==
  [a \in 1 .. Len(mem) |-> IF a - 1 >= w /\ a - 1 < w + Len(out) THEN out[a - w] ELSE mem[a]]

\* _convert_utf16le_to_utf8, lines 970-989, from unit i on, writing at offset
\* w of the very buffer it reads from (line 1013 passes temp_buf as utf8)
RECURSIVE convert_utf16le_to_utf8(_, _, _, _)
convert_utf16le_to_utf8(mem, len, i, w) ==
  IF i = len THEN [mem |-> mem, w |-> w, off |-> FALSE]
  ELSE IF 2 * i + 4 > Len(mem) THEN [mem |-> mem, w |-> w, off |-> TRUE]
  ELSE LET out == utf8_of(unit_at(mem, i))
       IN  IF w + Len(out) > Len(mem) THEN [mem |-> mem, w |-> w + Len(out), off |-> TRUE]
           ELSE convert_utf16le_to_utf8(Poke(mem, w, out), len, i + 1, w + Len(out))

\* utf16_to_utf8(temp_buf, buf_len), lines 1009-1015, on the memory mem that
\* starts at temp_buf. The result: the memory afterwards, the units asked
\* for, the count of line 1011, the bytes emitted, how far it read (rd) and
\* wrote (wr) from temp_buf on, and whether it left the memory described.
utf16_to_utf8(mem, buf_len) ==
  LET len == utf16_len_of(mem[1] % 256)
      cnt == count_utf8_bytes(mem, len, 0, 0)
      cnv == convert_utf16le_to_utf8(mem, len, 0, 0)
      nul == cnt.total
      inside == ~cnt.off /\ ~cnv.off /\ nul < Len(mem)
  IN  [desc |-> mem, buf_len |-> buf_len, units |-> len, count |-> cnt.total,
       emitted |-> cnv.w,
       mem |-> IF inside THEN Poke(cnv.mem, nul, << 0 >>) ELSE cnv.mem,
       rd |-> cnt.rd,
       wr |-> Extent(cnv.w, nul + 1),
       off |-> ~inside]

NoBuffer == [desc |-> << >>, buf_len |-> 0, units |-> 0, count |-> 0, emitted |-> 0,
             mem |-> << >>, rd |-> 0, wr |-> 0, off |-> FALSE]

\* the C string that starts at offset 0 of mem: the bytes before the first 0
RECURSIVE cstring(_, _)
cstring(mem, a) ==
  IF a > Len(mem) \/ mem[a] = 0 THEN << >> ELSE << mem[a] >> \o cstring(mem, a + 1)

\* a string descriptor with the UTF-16 units us, as the transfer leaves it in
\* a zeroed buffer of size bytes: bLength, bDescriptorType (3), the units
StringDescriptor(us, size) ==
  [a \in 1 .. size |->
     IF a = 1 THEN 2 + 2 * Len(us)
     ELSE IF a = 2 THEN 3
     ELSE IF (a - 3) \div 2 < Len(us)
          THEN IF a % 2 = 1 THEN us[(a - 3) \div 2 + 1] % 256
               ELSE us[(a - 3) \div 2 + 1] \div 256
          ELSE 0]

\* strncpy(dst, src, n) of a C string given by its bytes
strncpy_bytes(s, n) == IF Len(s) < n THEN s ELSE SubSeq(s, 1, n)


\* a gate that lets every image through
setup_gate_open(hash) == TRUE

\* line 388: computed_hash == valid_hash
setup_gate(hash) == hash = valid_hash

\* setup(), lines 338-406 (Cerberus.ino 159-225): queue_init, the self test,
\* usb_msc.begin() behind the gate, and the busy-wait on a failed self test.
setup ==
  /\ pc0.blk = "setup"
  /\ LET hash == XXH32([b \in HashedBlocks |-> msc_disk(b)])
     IN  /\ computed_hash' = hash
         /\ msc_started' = setup_gate(hash)
         /\ current_gui_message' =
              (IF hash = valid_hash THEN Msg("Selftest: OK", 0, 12) ELSE Msg("Stopping...", 0, 11))
         /\ pc0' = [blk |-> IF hash = valid_hash THEN "serial" ELSE "halted", act |-> FALSE]
  /\ display_queue' = << >>
  /\ ev' = [op |-> "setup", a |-> 0, b |-> 0]
  /\ UNCHANGED << shellVars, strbuf, suspVars, dev_info, now, pc1, flash_bad, mscVars, baitVars, latchVars, hidVars, usbkiller,
                  speedVars, kbdVars, last_device, q_ret >>
  /\ Track("boot")

\* setup1(), lines 409-419: core 1 brings up the USB host stack.
setup1 ==
  /\ pc1 = "setup1"
  /\ pc1' = "idle"
  /\ ev' = [op |-> "setup1", a |-> 0, b |-> 0]
  /\ UNCHANGED << shellVars, strbuf, suspVars, dev_info, now, pc0, bootVars, mscVars, baitVars, latchVars, hidVars, usbkiller,
                  current_gui_message, speedVars, kbdVars, last_device, queueVars >>
  /\ Track("boot")

\* to_ms_since_boot advances.
Tick ==
  /\ now < MaxTicks * TickMs
  /\ now' = now + TickMs
  /\ UNCHANGED << shellVars, strbuf, suspVars, dev_info, pc0, pc1, bootVars, mscVars, baitVars, latchVars, hidVars, usbkiller,
                  current_gui_message, speedVars, kbdVars, last_device, queueVars, ev >>
  /\ UNCHANGED writers

\* ------------------------------------------------------------------------
\* Honeypot storage: msc_read_callback / msc_write_callback
\* ------------------------------------------------------------------------
\* number of 512-byte chunks a transfer of bufsize bytes spans
XferBlocks(bufsize) == (bufsize + DISK_BLOCK_SIZE - 1) \div DISK_BLOCK_SIZE

\* a guard on the advertised capacity
msc_guard_advertised(lba) == lba < FAKE_DISK_BLOCK_NUM - 1

\* "this is protecting our memory integrity": lines 589, 631
msc_guard(lba) == lba < DISK_BLOCK_NUM - 1

\* byte `off` of a write buffer filled with payload p: payload 1 is plain data,
\* payloads 2, 3, 4 carry the tombstone at offset 32, 64, 160, payload 5 at
\* offset 0 only.
PayloadByte(p, off) ==
  IF (p = 2 /\ off = 32) \/ (p = 3 /\ off = 64) \/ (p = 4 /\ off = 160) \/ (p = 5 /\ off = 0)
  THEN TOMBSTONE ELSE 65

NoAccess == [kind |-> "none", lo |-> 0, hi |-> 0]

\* a test that takes every block from the bait on
bait_block_or_later(lba, block) == lba >= block

\* lines 578 and 583: the read starts at the block of the bait file
bait_block(lba, block) == lba = block

\* msc_read_callback, lines 575-606 (Cerberus.ino 327-356)
msc_read_callback(lba, bufsize) ==
  /\ msc_started
  /\ readme' = (IF bait_block(lba, BLOCK_README) THEN TRUE ELSE readme)
  /\ autorun' = (IF bait_block(lba, BLOCK_AUTORUN) THEN TRUE ELSE autorun)
  /\ IF msc_guard(lba)
       THEN /\ buffer' = [j \in 0 .. XferBlocks(bufsize) - 1 |->
                            IF lba + j < DISK_BLOCK_NUM THEN msc_disk(lba + j)
                            ELSE <<"oob", lba + j>>]
            /\ access' = [kind |-> "read", lo |-> lba * DISK_BLOCK_SIZE,
                          hi |-> lba * DISK_BLOCK_SIZE + bufsize]
       ELSE /\ buffer' = [j \in 0 .. XferBlocks(bufsize) - 1 |-> <<"stale", 0>>]
            /\ access' = NoAccess
  /\ ret' = bufsize
  /\ msc_ops' = msc_ops + 1
  /\ ev' = [op |-> "msc_read", a |-> lba, b |-> bufsize]
  /\ UNCHANGED << shellVars, strbuf, suspVars, dev_info, now, pc0, pc1, bootVars, msc_wr, written, deleted, latchVars, hidVars,
                  usbkiller, current_gui_message, speedVars, kbdVars, last_device, queueVars >>
  /\ Track("acquisition")

\* a test that looks at the first byte of the buffer only
tombstone_at_start(p) == PayloadByte(p, 0) = TOMBSTONE

\* line 618: buffer[32] == 0xE5 || buffer[64] == 0xE5 || buffer[160] == 0xE5
tombstone_in_entry(p) ==
  PayloadByte(p, 32) = TOMBSTONE \/ PayloadByte(p, 64) = TOMBSTONE
    \/ PayloadByte(p, 160) = TOMBSTONE

\* a test that takes the threshold block too
write_noise_from(lba) == lba >= WRITE_NOISE_LBA

\* line 625: lba > 10
write_past_noise(lba) == lba > WRITE_NOISE_LBA

\* msc_write_callback, lines 612-649 (Cerberus.ino 362-397)
msc_write_callback(lba, p, bufsize) ==
  /\ msc_started
  /\ deleted' = (IF lba = FAT_DIRECTORY_BLOCK /\ tombstone_in_entry(p)
                 THEN TRUE ELSE deleted)
  /\ written' = (IF write_past_noise(lba) THEN TRUE ELSE written)
  /\ IF msc_guard(lba)
       THEN /\ msc_wr' = [b \in DOMAIN msc_wr \cup
                                 {x \in lba .. lba + XferBlocks(bufsize) - 1 : x < DISK_BLOCK_NUM} |->
                            IF b >= lba /\ b < lba + XferBlocks(bufsize) THEN <<"wr", p>>
                            ELSE msc_wr[b]]
            /\ access' = [kind |-> "write", lo |-> lba * DISK_BLOCK_SIZE,
                          hi |-> lba * DISK_BLOCK_SIZE + bufsize]
       ELSE /\ msc_wr' = msc_wr
            /\ access' = NoAccess
  /\ buffer' = [j \in 0 .. XferBlocks(bufsize) - 1 |-> <<"wr", p>>]
  /\ ret' = bufsize
  /\ msc_ops' = msc_ops + 1
  /\ ev' = [op |-> "msc_write", a |-> lba, b |-> bufsize]
  /\ UNCHANGED << shellVars, strbuf, suspVars, dev_info, now, pc0, pc1, bootVars, readme, autorun, latchVars, hidVars,
                  usbkiller, current_gui_message, speedVars, kbdVars, last_device, queueVars >>
  /\ Track("acquisition")

\* ------------------------------------------------------------------------
\* Typing-rate detector: update_hid_speed, lines 1523-1543
\* ------------------------------------------------------------------------
\* The detector works on a record st of the globals it reads and writes:
\* start, count, speed, alert, reported (hid_window_start, hid_window_count,
\* hid_current_speed, hid_speed_alert, hid_speed_reported), events
\* (last_device.hid_events), out (what has been printed), raised (this call set
\* hid_speed_alert) and stop (the keycode slot at which the callback is between
\* the two writes of line 1534 and line 1535, 0 if it is not).

\* now - hid_window_start > HID_SPEED_WINDOW_MS, in uint32_t: a negative
\* difference wraps to a value of 2^31 or more, which is over the window
speed_expired(st, t) ==
  LET d == t - st.start
  IN  IF d < 0 THEN TRUE ELSE d > HID_SPEED_WINDOW_MS

\* (float)hid_window_count * 1000.0f / (float)HID_SPEED_WINDOW_MS: exact for
\* the counts of the model, the window being 1000 ms
speed_of(count) == (count * 1000) \div HID_SPEED_WINDOW_MS

\* a detector that alerts at the threshold already
speed_at_or_over(speed) == speed >= HID_SPEED_THRESHOLD

\* hid_current_speed > HID_SPEED_THRESHOLD, line 1533
speed_over(speed) == speed > HID_SPEED_THRESHOLD

\* update_hid_speed up to and including `hid_speed_alert = true` (line 1534)
update_hid_speed_A(st, t) ==
  IF speed_expired(st, t) /\ st.count > 0
  THEN LET sp == speed_of(st.count)
           up == speed_over(sp) /\ ~st.alert
       IN  [st EXCEPT !.speed = sp, !.alert = (st.alert \/ up), !.raised = up,
                      !.shown = IF up THEN 0 ELSE st.shown]
  ELSE [st EXCEPT !.raised = FALSE]

\* update_hid_speed from `hid_speed_reported = false` (line 1535) to its end
update_hid_speed_B(st, t) ==
  LET s1 == IF st.raised THEN [st EXCEPT !.reported = FALSE] ELSE st
      s2 == IF speed_expired(s1, t) THEN [s1 EXCEPT !.start = t, !.count = 0] ELSE s1
  IN  [s2 EXCEPT !.count = U16(s2.count + 1), !.raised = FALSE]

\* ------------------------------------------------------------------------
\* Keyboard reports: process_kbd_report, lines 1110-1252
\* ------------------------------------------------------------------------
HasBit(m, bit) == (m \div bit) % 2 = 1
ClearBit(m, bit) == IF HasBit(m, bit) THEN m - bit ELSE m

\* KEYBOARD_MODIFIER_LEFTCTRL | KEYBOARD_MODIFIER_RIGHTCTRL and the like
HasCtrl(m)  == HasBit(m, 1) \/ HasBit(m, 16)
HasShift(m) == HasBit(m, 2) \/ HasBit(m, 32)
HasAlt(m)   == HasBit(m, 4) \/ HasBit(m, 64)
HasGui(m)   == HasBit(m, 8) \/ HasBit(m, 128)

NoReport == [modifier |-> 0, keycode |-> <<0, 0, 0, 0, 0, 0>>]

\* find_key_in_report, lines 1102-1108
find_key_in_report(report, keycode) ==
  \E i \in 1 .. KEYCODE_SLOTS : report.keycode[i] = keycode

\* lines 1131-1138
report_has_ctrl(report) == HasCtrl(report.modifier)
report_has_key(report) == \E i \in 1 .. KEYCODE_SLOTS : report.keycode[i] # 0

\* a keycode of the report that the previous report does not hold
FreshKeys(report, prev) ==
  {i \in 1 .. KEYCODE_SLOTS : report.keycode[i] # 0 /\ ~find_key_in_report(prev, report.keycode[i])}

\* line 1172 and line 1184: the row of keycode2ascii that is read is the
\* keycode of the slot, a uint8_t, as the device sent it
\* keycode2ascii[keycode][shift], line 1022 and line 1184: TinyUSB's
\* HID_KEYCODE_TO_ASCII for the keycodes below 128; an index of 128 or more
\* reads past the table and yields the byte g that lies there.
table_index(keycode) == keycode

keycode2ascii(k, shift, g) ==
  CASE table_index(k) >= KEYCODE_TABLE_SIZE -> g
    [] k >= 4 /\ k <= 29 -> (IF shift THEN 65 ELSE 97) + (k - 4)
    [] k >= 30 /\ k <= 38 -> IF shift THEN <<33, 64, 35, 36, 37, 94, 38, 42, 40>>[k - 29] ELSE 49 + (k - 30)
    [] k = 39 -> IF shift THEN 41 ELSE 48
    [] k = 40 -> 13
    [] k = 41 -> 27
    [] k = 42 -> 8
    [] k = 43 -> 9
    [] k = 44 -> 32
    [] k = 45 -> IF shift THEN 95 ELSE 45
    [] k = 46 -> IF shift THEN 43 ELSE 61
    [] k = 47 -> IF shift THEN 123 ELSE 91
    [] k = 48 -> IF shift THEN 125 ELSE 93
    [] k = 49 -> IF shift THEN 124 ELSE 92
    [] k = 51 -> IF shift THEN 58 ELSE 59
    [] k = 54 -> IF shift THEN 60 ELSE 44
    [] k = 55 -> IF shift THEN 62 ELSE 46
    [] k = 56 -> IF shift THEN 63 ELSE 47
    [] OTHER -> 0

\* get_special_key_marker, lines 1257-1334; "" stands for NULL
get_special_key_marker(code) ==
  CASE code = 79 -> "<ARROWRIGHT>" [] code = 80 -> "<ARROWLEFT>"
    [] code = 81 -> "<ARROWDOWN>"  [] code = 82 -> "<ARROWUP>"
    [] code = 74 -> "<HOME>"       [] code = 77 -> "<END>"
    [] code = 75 -> "<PAGEUP>"     [] code = 78 -> "<PAGEDOWN>"
    [] code = 73 -> "<INSERT>"     [] code = 76 -> "<DEL>"
    [] code = 58 -> "<F1>"  [] code = 59 -> "<F2>"  [] code = 60 -> "<F3>"
    [] code = 61 -> "<F4>"  [] code = 62 -> "<F5>"  [] code = 63 -> "<F6>"
    [] code = 64 -> "<F7>"  [] code = 65 -> "<F8>"  [] code = 66 -> "<F9>"
    [] code = 67 -> "<F10>" [] code = 68 -> "<F11>" [] code = 69 -> "<F12>"
    [] code = 89 -> "1" [] code = 90 -> "2" [] code = 91 -> "3" [] code = 92 -> "4"
    [] code = 93 -> "5" [] code = 94 -> "6" [] code = 95 -> "7" [] code = 96 -> "8"
    [] code = 97 -> "9" [] code = 98 -> "0" [] code = 99 -> "."
    [] code = 84 -> "/" [] code = 85 -> "*" [] code = 86 -> "-" [] code = 87 -> "+"
    [] code = 88 -> "<ENTER>"
    [] code = 70 -> "<PRNT>"    [] code = 71 -> "<SCRLL>" [] code = 72 -> "<PAUSE>"
    [] code = 83 -> "<NUMLOCK>" [] code = 57 -> "<CAPSLOCK>" [] code = 41 -> "<ESC>"
    [] code \in {224, 228} -> "<CTRL>"
    [] code \in {226, 230} -> "<ALT>"
    [] code \in {227, 231} -> "<WIN>"
    [] code \in {225, 229} -> "<SHIFT>"
    [] code = 101 -> "<MENU>"
    [] code = 44 -> " "   [] code = 40 -> "<ENTER>"
    [] code = 43 -> "<TAB>" [] code = 42 -> "<BACKSPACE>"
    [] OTHER -> ""

\* a counter that is incremented without the test of line 1142
ctrl_filter_wrapping(k, report) ==
  IF report_has_key(report)
  THEN IF report_has_ctrl(report)
       THEN LET c == (k.ctrl_seq_count + 1) % (CTRL_SEQ_MAX + 1)
            IN  [k EXCEPT !.ctrl_seq_count = c,
                          !.ctrl_is_spurious = (k.ctrl_is_spurious \/ c >= CTRL_SPURIOUS_THRESHOLD)]
       ELSE [k EXCEPT !.ctrl_seq_count = 0, !.ctrl_is_spurious = FALSE]
  ELSE k

\* lines 1140-1157: the spurious-CTRL run counter and filter, on the statics k
ctrl_filter(k, report) ==
  IF report_has_key(report)
  THEN IF report_has_ctrl(report)
       THEN LET c == IF k.ctrl_seq_count < CTRL_SEQ_MAX THEN k.ctrl_seq_count + 1
                     ELSE k.ctrl_seq_count
            IN  [k EXCEPT !.ctrl_seq_count = c,
                          !.ctrl_is_spurious = (k.ctrl_is_spurious \/ c >= CTRL_SPURIOUS_THRESHOLD)]
       ELSE [k EXCEPT !.ctrl_seq_count = 0, !.ctrl_is_spurious = FALSE]
  ELSE k

\* a decoder without the filter
print_ctrl_always(is_ctrl, spurious) == is_ctrl

\* line 1220: the CTRL+ prefix is printed for a CTRL-bearing press unless the
\* filter is on
print_ctrl(is_ctrl, spurious) == is_ctrl /\ ~spurious

\* lines 1180-1246: one fresh key, after update_hid_speed: count it in the
\* forensics record, resolve modifiers and display form, print.
key_emit(st, report, keycode, spurious, g) ==
  LET is_shift == HasShift(report.modifier)
      ch == keycode2ascii(keycode, is_shift, g)
      m1 == IF keycode \in {224, 228}
            THEN ClearBit(ClearBit(report.modifier, 1), 16) ELSE report.modifier
      m2 == IF keycode \in {227, 231} THEN ClearBit(ClearBit(m1, 8), 128) ELSE m1
      mod == IF keycode \in {226, 230} THEN ClearBit(ClearBit(m2, 4), 64) ELSE m2
      marker == get_special_key_marker(keycode)
      is_special == marker # ""
      is_printable == ~is_special /\ ch >= 32 /\ ch < 127
      is_ctrl_char == ~is_special /\ ~is_printable /\ ch \in {13, 9, 8, 27}
      has_output == is_special \/ is_printable \/ is_ctrl_char
      counted == [st EXCEPT !.events = U16(st.events + 1)]
  IN  IF ~has_output THEN counted
      ELSE [counted EXCEPT !.out = Append(st.out,
              [keycode |-> keycode,
               ctrl |-> print_ctrl(HasCtrl(mod), spurious),
               gui |-> HasGui(mod), alt |-> HasAlt(mod),
               marker |-> marker, ch |-> IF is_special THEN 0 ELSE ch])]

\* lines 1165-1249: the loop over the six keycode slots from slot i on. It
\* returns early, with stop = i, when update_hid_speed has just set
\* hid_speed_alert for the key in slot i.
RECURSIVE KbdSlots(_, _, _, _, _, _)
KbdSlots(st, report, prev, spurious, g, i) ==
  IF i > KEYCODE_SLOTS THEN st
  ELSE LET k == report.keycode[i] IN
       IF k = 0 \/ find_key_in_report(prev, k)
       THEN KbdSlots(st, report, prev, spurious, g, i + 1)
       ELSE LET a == update_hid_speed_A(st, now) IN
            IF a.raised THEN [a EXCEPT !.stop = i]
            ELSE KbdSlots(key_emit(update_hid_speed_B(a, now), report, k, spurious, g),
                          report, prev, spurious, g, i + 1)

\* the detector's and the decoder's globals as a record, and back
SpeedState(out0) ==
  [start |-> hid_window_start, count |-> hid_window_count, speed |-> hid_current_speed,
   alert |-> hid_speed_alert, reported |-> hid_speed_reported, shown |-> shown,
   events |-> last_device.hid_events, out |-> out0, raised |-> FALSE, stop |-> 0]

StoreSpeedState(st) ==
  /\ hid_window_start' = st.start
  /\ hid_window_count' = st.count
  /\ hid_current_speed' = st.speed
  /\ hid_speed_alert' = st.alert
  /\ hid_speed_reported' = st.reported
  /\ shown' = st.shown
  /\ last_device' = [last_device EXCEPT !.hid_events = st.events]

NoCallback == [report |-> NoReport, g |-> 0, i |-> 0, t |-> 0, out |-> << >>]

\* the end of process_kbd_report (line 1251) and of the callback (line 1077),
\* or the callback left between line 1534 and line 1535
KbdFinish(st, report, g) ==
  /\ StoreSpeedState(st)
  /\ IF st.stop = 0
       THEN /\ kbd_out' = st.out
            /\ hid_event_num' = hid_event_num + 1
            /\ pc1' = "idle"
            /\ cb' = NoCallback
       ELSE /\ kbd_out' = kbd_out
            /\ hid_event_num' = hid_event_num
            /\ pc1' = "speed_w2"
            /\ cb' = [report |-> report, g |-> g, i |-> st.stop, t |-> now, out |-> st.out]

\* tuh_hid_report_received_cb for a keyboard (or generic) report, lines
\* 1058-1100, with process_kbd_report, lines 1110-1252. g is the byte that
\* lies past keycode2ascii, read for keycodes of 128 and more.
tuh_hid_report_received_cb(report, g) ==
  /\ pc1 = "idle"
  /\ hid_mounted
  /\ hid_sent' = TRUE
  /\ LET k1 == ctrl_filter(kbd, report)
         st == KbdSlots(SpeedState(<< >>), report, kbd.prev_report, k1.ctrl_is_spurious, g, 1)
     IN  /\ KbdFinish(st, report, g)
         /\ kbd' = IF st.stop = 0 THEN [k1 EXCEPT !.prev_report = report] ELSE k1
  /\ ev' = [op |-> "hid_report", a |-> report.modifier, b |-> Cardinality(FreshKeys(report, kbd.prev_report))]
  /\ UNCHANGED << shellVars, strbuf, suspVars, dev_info, now, pc0, bootVars, mscVars, baitVars, latchVars, hid_reported, hid_mounted,
                  usbkiller, current_gui_message, queueVars >>
  /\ Track("acquisition")

\* the callback goes on from line 1535: `hid_speed_reported = false`, the rest
\* of update_hid_speed, the key that raised the alert, the remaining slots.
kbd_resume ==
  /\ pc1 = "speed_w2"
  /\ LET s0 == [SpeedState(cb.out) EXCEPT !.raised = TRUE]
         s1 == key_emit(update_hid_speed_B(s0, cb.t), cb.report, cb.report.keycode[cb.i],
                        kbd.ctrl_is_spurious, cb.g)
         st == KbdSlots(s1, cb.report, kbd.prev_report, kbd.ctrl_is_spurious, cb.g, cb.i + 1)
     IN  /\ KbdFinish(st, cb.report, cb.g)
         /\ kbd' = IF st.stop = 0 THEN [kbd EXCEPT !.prev_report = cb.report] ELSE kbd
  /\ ev' = [op |-> "hid_report_end", a |-> cb.report.modifier, b |-> cb.i]
  /\ UNCHANGED << shellVars, strbuf, suspVars, dev_info, now, pc0, bootVars, mscVars, baitVars, latchVars, hid_sent, hid_reported,
                  hid_mounted, usbkiller, current_gui_message, queueVars >>
  /\ Track("acquisition")

\* tuh_hid_mount_cb, lines 1025-1045: runs on core 1 and calls showStatus.
tuh_hid_mount_cb ==
  /\ pc1 = "idle"
  /\ ~hid_mounted
  /\ hid_mounted' = TRUE
  /\ current_gui_message' = Msg("HID Device", 0, 10)
  /\ ev' = [op |-> "hid_mount", a |-> 0, b |-> 0]
  /\ UNCHANGED << shellVars, strbuf, suspVars, dev_info, now, pc0, pc1, bootVars, mscVars, baitVars, latchVars, hid_sent,
                  hid_reported, hid_event_num, usbkiller, speedVars, kbdVars, last_device,
                  queueVars >>
  /\ Track("acquisition")

\* tuh_msc_mount_cb (lines 1369-1373) and tuh_cdc_mount_cb (lines 1381-1385):
\* each runs on core 1 and calls showStatus.
tuh_msc_mount_cb ==
  /\ pc1 = "idle"
  /\ current_gui_message' = Msg("Mass Device", 0, 11)
  /\ ev' = [op |-> "msc_mount", a |-> 0, b |-> 0]
  /\ UNCHANGED << shellVars, strbuf, suspVars, dev_info, now, pc0, pc1, bootVars, mscVars, baitVars, latchVars, hid_sent,
                  hid_reported, hid_mounted, hid_event_num, usbkiller, speedVars, kbdVars, last_device,
                  queueVars >>
  /\ Track("acquisition")

tuh_cdc_mount_cb ==
  /\ pc1 = "idle"
  /\ current_gui_message' = Msg("CDC Device", 0, 10)
  /\ ev' = [op |-> "cdc_mount", a |-> 0, b |-> 0]
  /\ UNCHANGED << shellVars, strbuf, suspVars, dev_info, now, pc0, pc1, bootVars, mscVars, baitVars, latchVars, hid_sent,
                  hid_reported, hid_mounted, hid_event_num, usbkiller, speedVars, kbdVars, last_device,
                  queueVars >>
  /\ Track("acquisition")

\* tuh_hid_umount_cb, lines 1048-1055
tuh_hid_umount_cb ==
  /\ pc1 = "idle"
  /\ hid_mounted
  /\ hid_mounted' = FALSE
  /\ hid_sent' = FALSE
  /\ hid_reported' = FALSE
  /\ hid_event_num' = 0
  /\ ev' = [op |-> "hid_umount", a |-> 0, b |-> 0]
  /\ UNCHANGED << shellVars, strbuf, suspVars, dev_info, now, pc0, pc1, bootVars, mscVars, baitVars, latchVars, usbkiller,
                  current_gui_message, speedVars, kbdVars, last_device, queueVars >>
  /\ Track("acquisition")

\* detectUSBKiller, lines 331-335: the handler of the falling-edge interrupt
\* attached in setup (line 372). low is what digitalRead(KILLER_PIN) finds.
detectUSBKiller(low) ==
  /\ pc0.blk # "setup"
  /\ usbkiller' = (IF low THEN TRUE ELSE usbkiller)
  /\ ev' = [op |-> "isr", a |-> IF low THEN 1 ELSE 0, b |-> 0]
  /\ UNCHANGED << shellVars, strbuf, suspVars, dev_info, now, pc0, pc1, bootVars, mscVars, baitVars, latchVars, hidVars,
                  current_gui_message, speedVars, kbdVars, last_device, queueVars >>
  /\ Track("interrupt")

\* ------------------------------------------------------------------------
\* Device attach, descriptor fetch and the suspicious-device table
\* ------------------------------------------------------------------------
\* lines 255-314, the end marker included; NULL is the name ""
SUSPICIOUS_DEVICES == <<
  [vid |-> 1452, pid |-> 0, name |-> "Apple(Spoof?)", len |-> 13],
  [vid |-> 5824, pid |-> 1143, name |-> "DigiSpark", len |-> 9],
  [vid |-> 5824, pid |-> 1503, name |-> "USBasp/Digi", len |-> 11],
  [vid |-> 5824, pid |-> 10203, name |-> "HID Digi", len |-> 8],
  [vid |-> 5824, pid |-> 10202, name |-> "CDC Digi", len |-> 8],
  [vid |-> 5824, pid |-> 1158, name |-> "Teensy HID", len |-> 10],
  [vid |-> 5824, pid |-> 1159, name |-> "Teensy MIDI", len |-> 11],
  [vid |-> 5824, pid |-> 1160, name |-> "Teensy Serial", len |-> 13],
  [vid |-> 5824, pid |-> 1232, name |-> "Teensy40 HID", len |-> 12],
  [vid |-> 5824, pid |-> 1233, name |-> "Teensy40 Ser", len |-> 12],
  [vid |-> 9025, pid |-> 32822, name |-> "Arduino Leo", len |-> 11],
  [vid |-> 9025, pid |-> 32823, name |-> "Arduino Micro", len |-> 13],
  [vid |-> 9025, pid |-> 54, name |-> "Arduino Leo BL", len |-> 14],
  [vid |-> 9025, pid |-> 55, name |-> "Arduino Micro BL", len |-> 16],
  [vid |-> 6991, pid |-> 37381, name |-> "ProMicro 5V", len |-> 11],
  [vid |-> 6991, pid |-> 37382, name |-> "ProMicro 3.3V", len |-> 13],
  [vid |-> 6991, pid |-> 37383, name |-> "LilyPad USB", len |-> 11],
  [vid |-> 6991, pid |-> 0, name |-> "Malduino?", len |-> 9],
  [vid |-> 1155, pid |-> 22336, name |-> "Flipper Zero", len |-> 12],
  [vid |-> 1133, pid |-> 50475, name |-> "Logitech(OMG?)", len |-> 14],
  [vid |-> 6790, pid |-> 29987, name |-> "CH340", len |-> 5],
  [vid |-> 6790, pid |-> 21795, name |-> "CH341", len |-> 5],
  [vid |-> 1317, pid |-> 42150, name |-> "USBarmory", len |-> 9],
  [vid |-> 1317, pid |-> 42151, name |-> "LAN Turtle?", len |-> 11],
  [vid |-> 11914, pid |-> 5, name |-> "RPi Pico HID", len |-> 12],
  [vid |-> 12346, pid |-> 2, name |-> "ESP32-S2", len |-> 8],
  [vid |-> 12346, pid |-> 4097, name |-> "ESP32-S3", len |-> 8],
  [vid |-> 1367, pid |-> 8200, name |-> "ATEN Serial", len |-> 11],
  [vid |-> 0, pid |-> 0, name |-> "", len |-> 0] >>

\* line 316
SUSPICIOUS_COUNT == Len(SUSPICIOUS_DEVICES) - 1

SUSPICIOUS_NAME_SIZE == 16
ALERT_MSG_SIZE == 24

\* a vendor-only entry that takes no wildcard
signature_match_exact(entry, vid, pid) == entry.vid = vid /\ entry.pid = pid

\* lines 1553-1556: the entry matches the device
signature_match(entry, vid, pid) ==
  entry.vid = vid /\ (entry.pid = 0 \/ entry.pid = pid)

\* the loop of check_suspicious_device from index i on (i counts from 0)
RECURSIVE check_from(_, _, _)
check_from(vid, pid, i) ==
  IF i >= SUSPICIOUS_COUNT THEN [name |-> "", len |-> 0, found |-> FALSE]
  ELSE LET entry == SUSPICIOUS_DEVICES[i + 1]
       IN  IF signature_match(entry, vid, pid)
           THEN [name |-> entry.name, len |-> entry.len, found |-> TRUE]
           ELSE check_from(vid, pid, i + 1)

\* check_suspicious_device, lines 1548-1561; found = FALSE is NULL
check_suspicious_device(vid, pid) == check_from(vid, pid, 0)

NoName == [text |-> "", len |-> 0]
NoStrings == [manufacturer |-> << >>, product |-> << >>, serial |-> << >>]
\* answer is the device descriptor the attached device answers with; idVendor
\* to bDeviceSubClass are desc_device, which a completed transfer fills
NoAnswer == [vid |-> 0, pid |-> 0, class |-> 0, subclass |-> 0]
NoDevice == [mounted |-> FALSE, pending |-> FALSE, answer |-> NoAnswer,
             idVendor |-> 0, idProduct |-> 0,
             bDeviceClass |-> 0, bDeviceSubClass |-> 0,
             manufacturer |-> << >>, product |-> << >>, serial |-> << >>]

\* tuh_mount_cb, lines 850-863: the device descriptor of the attached device
\* is requested; vid, pid, class and subclass are what the device will answer.
tuh_mount_cb(vid, pid, class, subclass) ==
  /\ pc1 = "idle"
  /\ ~dev_info.mounted
  /\ dev_info' = [dev_info EXCEPT !.mounted = TRUE, !.pending = TRUE,
                                  !.answer = [vid |-> vid, pid |-> pid, class |-> class,
                                              subclass |-> subclass]]
  /\ ev' = [op |-> "mount", a |-> vid, b |-> pid]
  /\ UNCHANGED << shellVars, strbuf, suspVars, now, pc0, pc1, bootVars, mscVars, baitVars, latchVars, hidVars,
                  usbkiller, current_gui_message, speedVars, kbdVars, last_device, queueVars >>
  /\ Track("acquisition")

\* tuh_umount_cb, lines 866-877
tuh_umount_cb ==
  /\ pc1 = "idle"
  /\ dev_info.mounted
  /\ dev_info' = [dev_info EXCEPT !.mounted = FALSE, !.pending = FALSE, !.answer = NoAnswer]
  /\ suspicious_device' = FALSE
  /\ suspicious_reported' = FALSE
  /\ suspicious_name' = NoName
  /\ ev' = [op |-> "umount", a |-> 0, b |-> 0]
  /\ UNCHANGED << shellVars, strbuf, now, pc0, pc1, bootVars, mscVars, baitVars, latchVars, hidVars,
                  usbkiller, current_gui_message, speedVars, kbdVars, last_device, queueVars >>
  /\ Track("acquisition")

\* the sizes of the string buffers of dev_info_t (lines 91-93), in bytes, and
\* of last_device_info_t (lines 200-202)
DEV_MANUFACTURER_SIZE == 64
DEV_PRODUCT_SIZE == 96
DEV_SERIAL_SIZE == 32
LAST_MANUFACTURER_SIZE == 32
LAST_PRODUCT_SIZE == 48
LAST_SERIAL_SIZE == 16

\* the device descriptor has arrived in dev->desc_device
desc_device(dev) ==
  [dev EXCEPT !.idVendor = dev.answer.vid, !.idProduct = dev.answer.pid,
              !.bDeviceClass = dev.answer.class, !.bDeviceSubClass = dev.answer.subclass]

\* the size of last_device.suspicious_reason (line 207)
LAST_REASON_SIZE == 16

\* lines 903-904: the verdict and the label of a match are written into the
\* record rec as it is at that moment
mark_suspicious(rec, match) ==
  IF match.found
  THEN [rec EXCEPT !.was_suspicious = TRUE,
                   !.suspicious_reason = strncpy(match.name, match.len, LAST_REASON_SIZE - 1)]
  ELSE rec

\* save_device_info, lines 1508-1521: the strings are copied from the buffers
\* of dev as they are when it is called. Each strncpy is given the size of
\* its array less one: the last byte of the array (tail) is not written.
save_device_info(dev) ==
  [vid |-> dev.idVendor, pid |-> dev.idProduct,
   device_class |-> dev.bDeviceClass, device_subclass |-> dev.bDeviceSubClass,
   manufacturer |-> strncpy_bytes(dev.manufacturer, LAST_MANUFACTURER_SIZE - 1),
   product |-> strncpy_bytes(dev.product, LAST_PRODUCT_SIZE - 1),
   serial |-> strncpy_bytes(dev.serial, LAST_SERIAL_SIZE - 1),
   timestamp |-> now, hid_events |-> 0, max_hid_speed |-> 0, was_suspicious |-> FALSE,
   suspicious_reason |-> NoName, tail |-> last_device.tail]

\* a callback that decodes the buffer whatever the transfer's result
string_always_fetched(us) == TRUE

\* lines 925-930, 938-943, 951-956: the device has the string (its index is
\* not 0) and the transfer of its descriptor succeeds; << >> is a string that
\* the device has not or whose transfer fails
string_fetched(us) == us # << >>

\* lines 924-960: a string descriptor with the units us is fetched into a
\* buffer of size bytes and decoded in place; what the buffer then holds as a
\* C string
fetch_string(us, size) == cstring(utf16_to_utf8(StringDescriptor(us, size), size).mem, 1)

\* lines 932, 945 and 958: one call of utf16_to_utf8 from the descriptor
\* callback on core 1, on a buffer of buf_len bytes that lies at the start of
\* the memory mem
decode_string(mem, buf_len) ==
  /\ pc1 = "idle"
  /\ strbuf' = utf16_to_utf8(mem, buf_len)
  /\ ev' = [op |-> "utf16_to_utf8", a |-> mem[1], b |-> buf_len]
  /\ UNCHANGED << shellVars, suspVars, dev_info, now, pc0, pc1, bootVars, mscVars, baitVars, latchVars,
                  hidVars, usbkiller, current_gui_message, speedVars, kbdVars, last_device,
                  queueVars >>
  /\ Track("acquisition")

\* print_device_descriptor, lines 879-962: the completion of the descriptor
\* request. ok is the transfer's result; strs are the UTF-16 units of the
\* string descriptors the device answers with, << >> for a string it has not
\* (index 0) or whose transfer fails. save_device_info comes first (line
\* 891), the string descriptors are fetched after it (lines 924-960).
print_device_descriptor(ok, strs) ==
  /\ pc1 = "idle"
  /\ dev_info.pending
  /\ IF ok
       THEN LET dev == desc_device(dev_info)
                match == check_suspicious_device(dev.idVendor, dev.idProduct)
                saved == save_device_info(dev)
            IN  /\ suspicious_device' = (IF match.found THEN TRUE ELSE suspicious_device)
                /\ suspicious_reported' = (IF match.found THEN FALSE ELSE suspicious_reported)
                /\ suspicious_name' =
                     (IF match.found
                      THEN strncpy(match.name, match.len, SUSPICIOUS_NAME_SIZE - 1)
                      ELSE suspicious_name)
                /\ last_device' = mark_suspicious(saved, match)
                /\ dev_info' =
                     [dev EXCEPT
                        !.pending = FALSE,
                        !.manufacturer = IF ~string_fetched(strs.manufacturer) THEN @
                                         ELSE fetch_string(strs.manufacturer, DEV_MANUFACTURER_SIZE),
                        !.product = IF ~string_fetched(strs.product) THEN @
                                    ELSE fetch_string(strs.product, DEV_PRODUCT_SIZE),
                        !.serial = IF ~string_fetched(strs.serial) THEN @
                                   ELSE fetch_string(strs.serial, DEV_SERIAL_SIZE)]
       ELSE /\ dev_info' = [dev_info EXCEPT !.pending = FALSE]
            /\ UNCHANGED << suspVars, last_device >>
  /\ ev' = [op |-> IF ok THEN "descriptor" ELSE "descriptor_failed",
            a |-> dev_info.answer.vid, b |-> dev_info.answer.pid]
  /\ UNCHANGED << shellVars, strbuf, now, pc0, pc1, bootVars, mscVars, baitVars, latchVars, hidVars,
                  usbkiller, current_gui_message, speedVars, kbdVars, queueVars >>
  /\ Track("acquisition")

\* print_device_descriptor in two steps, for the behaviours in which loop()
\* runs on core 0 while the callback runs on core 1. The first step goes from
\* the entry to the return of save_device_info (lines 879-891).
print_device_descriptor_save ==
  /\ pc1 = "idle"
  /\ dev_info.pending
  /\ pc1' = "descriptor"
  /\ last_device' = save_device_info(desc_device(dev_info))
  /\ dev_info' = [desc_device(dev_info) EXCEPT !.pending = FALSE]
  /\ ev' = [op |-> "descriptor_save", a |-> dev_info.answer.vid, b |-> dev_info.answer.pid]
  /\ UNCHANGED << shellVars, strbuf, suspVars, now, pc0, bootVars, mscVars, baitVars, latchVars, hidVars,
                  usbkiller, current_gui_message, speedVars, kbdVars, queueVars >>
  /\ Track("acquisition")

\* The second step goes from check_suspicious_device to the end (lines
\* 894-962): the verdict is written into last_device as it is by then.
print_device_descriptor_mark(strs) ==
  /\ pc1 = "descriptor"
  /\ pc1' = "idle"
  /\ LET match == check_suspicious_device(dev_info.idVendor, dev_info.idProduct)
     IN  /\ suspicious_device' = (IF match.found THEN TRUE ELSE suspicious_device)
         /\ suspicious_reported' = (IF match.found THEN FALSE ELSE suspicious_reported)
         /\ suspicious_name' =
              (IF match.found
               THEN strncpy(match.name, match.len, SUSPICIOUS_NAME_SIZE - 1)
               ELSE suspicious_name)
         /\ last_device' = mark_suspicious(last_device, match)
  /\ dev_info' =
       [dev_info EXCEPT
          !.manufacturer = IF ~string_fetched(strs.manufacturer) THEN @
                           ELSE fetch_string(strs.manufacturer, DEV_MANUFACTURER_SIZE),
          !.product = IF ~string_fetched(strs.product) THEN @
                      ELSE fetch_string(strs.product, DEV_PRODUCT_SIZE),
          !.serial = IF ~string_fetched(strs.serial) THEN @
                     ELSE fetch_string(strs.serial, DEV_SERIAL_SIZE)]
  /\ ev' = [op |-> "descriptor", a |-> dev_info.idVendor, b |-> dev_info.idProduct]
  /\ UNCHANGED << shellVars, strbuf, now, pc0, bootVars, mscVars, baitVars, latchVars, hidVars,
                  usbkiller, current_gui_message, speedVars, kbdVars, queueVars >>
  /\ Track("acquisition")

\* ------------------------------------------------------------------------
\* The cross-core queue
\* ------------------------------------------------------------------------
\* a queue that takes every entry
queue_try_add_unbounded(q, msg) == [q |-> Append(q, msg), r |-> TRUE]

\* queue_try_add of the SDK: never blocks, false when the queue is full
queue_try_add(q, msg) ==
  IF Len(q) < QUEUE_CAPACITY THEN [q |-> Append(q, msg), r |-> TRUE]
  ELSE [q |-> q, r |-> FALSE]

\* enqueue_display, lines 684-690: a void function; what queue_try_add returns
\* is dropped. q_ret.lib is the SDK call's result, q_ret.out what the caller of
\* enqueue_display gets back, q_ret.pushes and q_ret.pops the calls so far; the
\* entry carries the number of the call that made it.
enqueue_display(text, len) ==
  /\ pc0.blk # "setup"
  /\ pc1 = "idle"
  /\ LET res == queue_try_add(display_queue, Msg(text, q_ret.pushes + 1, len))
     IN  /\ display_queue' = res.q
         /\ q_ret' = [op |-> "add", lib |-> res.r, out |-> "void",
                     pushes |-> q_ret.pushes + 1, pops |-> q_ret.pops]
  /\ ev' = [op |-> "enqueue_display", a |-> q_ret.pushes + 1, b |-> len]
  /\ UNCHANGED << shellVars, strbuf, suspVars, dev_info, now, pc0, pc1, bootVars, mscVars, baitVars, latchVars, hidVars, usbkiller,
                  current_gui_message, speedVars, kbdVars, last_device >>
  /\ Track("acquisition")

\* ------------------------------------------------------------------------
\* Core 0: loop(), lines 422-563, and the command shell
\* ------------------------------------------------------------------------
ZeroDevice ==
  [vid |-> 0, pid |-> 0, device_class |-> 0, device_subclass |-> 0,
   manufacturer |-> << >>, product |-> << >>, serial |-> << >>, timestamp |-> 0,
   hid_events |-> 0, max_hid_speed |-> 0, was_suspicious |-> FALSE,
   suspicious_reason |-> NoName,
   tail |-> [manufacturer |-> 0, product |-> 0, serial |-> 0, suspicious_reason |-> 0]]

At(blk) == [blk |-> blk, act |-> FALSE]

\* A serial line is the sequence of its character codes (ASCII).
\* lines 424-435: loop() collects characters up to '\n' or '\r' and keeps the
\* first SERIAL_BUFFER_SIZE - 1 of them.
serial_line(chars) ==
  IF Len(chars) < SERIAL_BUFFER_SIZE THEN chars ELSE SubSeq(chars, 1, SERIAL_BUFFER_SIZE - 1)

\* toupper of the C library
toupper(c) == IF c \in 97 .. 122 THEN c - 32 ELSE c

\* lines 1399-1403: the upper-cased copy of the line
upper_of(cmd) == [i \in 1 .. Len(cmd) |-> toupper(cmd[i])]

\* the words the strcmp chain of lines 1405-1464 compares with
WORD_HELP     == << 72, 69, 76, 80 >>
WORD_QUERY    == << 63 >>
WORD_STATUS   == << 83, 84, 65, 84, 85, 83 >>
WORD_LAST     == << 76, 65, 83, 84 >>
WORD_RESET    == << 82, 69, 83, 69, 84 >>
WORD_REBOOT   == << 82, 69, 66, 79, 79, 84 >>
WORD_VERBOSE  == << 86, 69, 82, 66, 79, 83, 69 >>
WORD_HEXDUMP  == << 72, 69, 88, 68, 85, 77, 80 >>
WORD_HIDDEBUG == << 72, 73, 68, 68, 69, 66, 85, 71 >>
WORD_CLEAR    == << 67, 76, 69, 65, 82 >>

\* lines 1405-1464: the branch of the strcmp chain a line takes; "UNKNOWN" is
\* the final else-if (strlen(upper) > 0), "" is no branch at all
command_of(cmd) ==
  LET upper == upper_of(cmd)
  IN  CASE upper = WORD_HELP \/ upper = WORD_QUERY -> "HELP"
        [] upper = WORD_STATUS -> "STATUS"
        [] upper = WORD_LAST -> "LAST"
        [] upper = WORD_RESET -> "RESET"
        [] upper = WORD_REBOOT -> "REBOOT"
        [] upper = WORD_VERBOSE -> "VERBOSE"
        [] upper = WORD_HEXDUMP -> "HEXDUMP"
        [] upper = WORD_HIDDEBUG -> "HIDDEBUG"
        [] upper = WORD_CLEAR -> "CLEAR"
        [] OTHER -> IF Len(upper) > 0 THEN "UNKNOWN" ELSE ""

\* a memset that leaves the record as it is
memset_skipped(dev) == dev

\* line 1459: memset(&last_device, 0, sizeof(last_device))
memset_zero(dev) == ZeroDevice

\* a shell in which RESET reaches the memset too
reaches_memset_on_reset(name) == name \in {"CLEAR", "RESET"}

\* line 1458: the branch that holds the memset
reaches_memset(name) == name = "CLEAR"

\* process_serial_command, lines 1397-1465, for the line cmd. serial_out is
\* the line and the branch that printed a response to it.
process_serial_command(cmd) ==
  LET name == command_of(cmd)
  IN  /\ IF name = "RESET"
           THEN /\ hid_event_num' = 0
                /\ hid_window_count' = 0
                /\ hid_current_speed' = 0
                /\ hid_speed_alert' = FALSE
                /\ hid_speed_reported' = FALSE
                /\ written_reported' = FALSE
                /\ deleted_reported' = FALSE
                /\ hid_reported' = FALSE
                /\ suspicious_reported' = FALSE
           ELSE UNCHANGED << hid_event_num, hid_window_count, hid_current_speed, hid_speed_alert,
                             hid_speed_reported, written_reported, deleted_reported, hid_reported,
                             suspicious_reported >>
      /\ current_gui_message' =
           CASE name = "RESET" -> Msg("Reset OK", 0, 8)
             [] name = "REBOOT" -> Msg("REBOOT", 0, 6)
             [] OTHER -> current_gui_message
      /\ verbose_mode' = IF name = "VERBOSE" THEN ~verbose_mode ELSE verbose_mode
      /\ show_hexdump' = IF name = "HEXDUMP" THEN ~show_hexdump ELSE show_hexdump
      /\ show_hid_debug' = IF name = "HIDDEBUG" THEN ~show_hid_debug ELSE show_hid_debug
      /\ last_device' = IF reaches_memset(name) THEN memset_zero(last_device) ELSE last_device
      /\ serial_out' = [line |-> cmd, out |-> name]

\* print_last_device, lines 1487-1506: the lines printed between the header
\* and the footer
print_last_device(dev) ==
  IF dev.vid = 0 /\ dev.pid = 0 THEN << "No device recorded" >>
  ELSE << <<"VID:PID", dev.vid, dev.pid>>,
          <<"Class", dev.device_class, dev.device_subclass>>,
          <<"Manufacturer", dev.manufacturer>>, <<"Product", dev.product>>,
          <<"Serial", dev.serial>>, <<"HID Events", dev.hid_events>>,
          <<"Max Speed", dev.max_hid_speed>>, <<"Suspicious", dev.was_suspicious>> >>
       \o (IF dev.was_suspicious THEN << <<"Reason", dev.suspicious_reason>> >> ELSE << >>)
       \o << <<"Timestamp", dev.timestamp>> >>

\* lines 424-435: the serial line of this iteration is dispatched if it has
\* at least one character; REBOOT ends in swreset() and does not return
loop_serial(chars) ==
  /\ pc0 = At("serial")
  /\ IF Len(chars) > 0
       THEN process_serial_command(serial_line(chars))
       ELSE /\ serial_out' = [line |-> << >>, out |-> ""]
            /\ UNCHANGED << hid_event_num, hid_window_count, hid_current_speed, hid_speed_alert,
                            hid_speed_reported, written_reported, deleted_reported, hid_reported,
                            suspicious_reported, current_gui_message, verbose_mode, show_hexdump,
                            show_hid_debug, last_device >>
  /\ pc0' = IF command_of(serial_line(chars)) = "REBOOT" THEN At("swreset") ELSE At("drain")
  /\ ev' = [op |-> IF Len(chars) = 0 THEN "loop" ELSE command_of(serial_line(chars)),
            a |-> 0, b |-> 0]
  /\ UNCHANGED << strbuf, suspicious_device, suspicious_name, dev_info, now, pc1, bootVars, mscVars,
                  baitVars, hid_sent, hid_mounted, usbkiller, hid_window_start, shown,
                  kbdVars, queueVars, viewVars >>
  /\ Track("reporting")

\* lines 438-445: one turn of the drain loop that finds an entry
loop_drain_pop ==
  /\ pc0 = At("drain")
  /\ Len(display_queue) > 0
  /\ current_gui_message' = IF descriptor_view_active THEN current_gui_message
                            ELSE Head(display_queue)
  /\ display_queue' = Tail(display_queue)
  /\ q_ret' = [q_ret EXCEPT !.op = "remove", !.lib = TRUE, !.out = "none", !.pops = @ + 1]
  /\ ev' = [op |-> "pop", a |-> Head(display_queue).n, b |-> 0]
  /\ UNCHANGED << shellVars, strbuf, suspVars, dev_info, now, pc0, pc1, bootVars, mscVars, baitVars, latchVars, hidVars, usbkiller,
                  speedVars, kbdVars, last_device >>
  /\ Track("reporting")

\* a loop() that goes on to the flag blocks whatever is on the display
view_never_returns(active) == FALSE

\* line 479: if (descriptor_view_active) return
view_returns(active) == active

\* lines 438-481: queue_try_remove finds the queue empty, the drain loop
\* ends; loop() reads the two buttons (rst_now, ok_now: TRUE is HIGH, a
\* pressed button reads LOW). A press of BTN_RST opens the descriptor view or
\* turns its page, a press of BTN_OK leaves the view (exit_descriptor_view,
\* lines 773-778). With the view open loop() returns (line 479) before the
\* flag blocks.
loop_buttons(rst_now, ok_now) ==
  /\ pc0 = At("drain")
  /\ Len(display_queue) = 0
  /\ q_ret' = [q_ret EXCEPT !.op = "remove", !.lib = FALSE, !.out = "none"]
  /\ LET rst_press == rst_now # rst_prev /\ ~rst_now
         ok_press == ok_now # ok_prev /\ ~ok_now
         a1 == rst_press \/ descriptor_view_active
         p1 == IF ~rst_press THEN descriptor_page
               ELSE IF descriptor_view_active THEN (descriptor_page + 1) % 256 ELSE 0
         exit == ok_press /\ a1
     IN  /\ descriptor_view_active' = (a1 /\ ~exit)
         /\ descriptor_page' = IF exit THEN 0 ELSE p1
         /\ pc0' = IF view_returns(a1 /\ ~exit) THEN At("serial") ELSE At("killer")
         /\ ev' = IF exit THEN [op |-> "view_exit", a |-> 0, b |-> 0]
                  ELSE IF rst_press THEN [op |-> "view", a |-> p1, b |-> 0]
                  ELSE ev
  /\ rst_prev' = rst_now
  /\ ok_prev' = ok_now
  /\ UNCHANGED << verbose_mode, show_hexdump, show_hid_debug, serial_out, strbuf, suspVars, dev_info,
                  now, pc1, bootVars, mscVars, baitVars, latchVars, hidVars, usbkiller,
                  current_gui_message, speedVars, kbdVars, last_device, display_queue >>
  /\ Track("reporting")

\* the pass of loop() in which neither button is touched
loop_drain_end == loop_buttons(TRUE, TRUE)

\* the flag blocks of loop() in source order, lines 483-543
NextBlock(blk) ==
  CASE blk = "killer" -> "readme"
    [] blk = "readme" -> "autorun"
    [] blk = "autorun" -> "deleted"
    [] blk = "deleted" -> "written"
    [] blk = "written" -> "hid"
    [] blk = "hid" -> "susp"
    [] blk = "susp" -> "speed"
    [] blk = "speed" -> "serial"

FlagBlocks == {"killer", "readme", "autorun", "deleted", "written", "hid", "susp", "speed"}

\* blocks that notify whenever their flag is set
BlockCondUnlatched(blk) ==
  CASE blk = "killer" -> usbkiller
    [] blk = "readme" -> readme
    [] blk = "autorun" -> autorun
    [] blk = "deleted" -> deleted
    [] blk = "written" -> written
    [] blk = "hid" -> hid_sent
    [] blk = "susp" -> suspicious_device
    [] blk = "speed" -> hid_speed_alert

\* the condition of each block's if
BlockCond(blk) ==
  CASE blk = "killer" -> usbkiller
    [] blk = "readme" -> readme
    [] blk = "autorun" -> autorun
    [] blk = "deleted" -> deleted /\ ~deleted_reported
    [] blk = "written" -> written /\ ~written_reported
    [] blk = "hid" -> hid_sent /\ ~hid_reported
    [] blk = "susp" -> suspicious_device /\ ~suspicious_reported
    [] blk = "speed" -> hid_speed_alert /\ ~hid_speed_reported

\* loop() evaluates the condition of the block it stands at
loop_test ==
  /\ pc0.blk \in FlagBlocks
  /\ ~pc0.act
  /\ pc0' = IF BlockCond(pc0.blk) THEN [blk |-> pc0.blk, act |-> TRUE]
            ELSE At(NextBlock(pc0.blk))
  /\ UNCHANGED << shellVars, strbuf, suspVars, dev_info, now, pc1, bootVars, mscVars, baitVars, latchVars, hidVars, usbkiller,
                  current_gui_message, speedVars, kbdVars, last_device, queueVars, ev >>
  /\ Track("reporting")

\* line 540: the forensics peak follows the rate read at report time
speed_peak(peak, speed) == IF speed > peak THEN speed ELSE peak

\* loop() runs the body of the block whose condition it found true. The body
\* of the usbkiller block is two steps, since the interrupt of line 372 can
\* come between them: showStatus (line 484) here, the clear (line 485) in
\* loop_killer_clear.
loop_act ==
  /\ pc0.blk \in FlagBlocks
  /\ pc0.act
  /\ pc0' = IF pc0.blk = "killer" THEN At("killer_clear") ELSE At(NextBlock(pc0.blk))
  /\ current_gui_message' =
       CASE pc0.blk = "killer" -> Msg("USB Killer", 0, 10)
         [] pc0.blk = "readme" -> Msg("README (R)", 0, 10)
         [] pc0.blk = "autorun" -> Msg("AUTORUN (R)", 0, 11)
         [] pc0.blk = "deleted" -> Msg("DELETING", 0, 8)
         [] pc0.blk = "written" -> Msg("WRITING", 0, 7)
         [] pc0.blk = "hid" -> Msg("HID Sending data", 0, 16)
         [] pc0.blk = "susp" ->
              LET n == 6 + suspicious_name.len
              IN  MsgF("SUSP: %s", 0, suspicious_name.text,
                       IF n < ALERT_MSG_SIZE - 1 THEN n ELSE ALERT_MSG_SIZE - 1)
         [] pc0.blk = "speed" -> Msg("AUTO k/s", hid_current_speed, 10)
  /\ readme' = IF pc0.blk = "readme" THEN FALSE ELSE readme
  /\ autorun' = IF pc0.blk = "autorun" THEN FALSE ELSE autorun
  /\ deleted' = IF pc0.blk = "deleted" THEN FALSE ELSE deleted
  /\ deleted_reported' = IF pc0.blk = "deleted" THEN TRUE ELSE deleted_reported
  /\ written' = IF pc0.blk = "written" THEN FALSE ELSE written
  /\ written_reported' = IF pc0.blk = "written" THEN TRUE ELSE written_reported
  /\ hid_sent' = IF pc0.blk = "hid" THEN FALSE ELSE hid_sent
  /\ hid_reported' = IF pc0.blk = "hid" THEN TRUE ELSE hid_reported
  /\ suspicious_device' = IF pc0.blk = "susp" THEN FALSE ELSE suspicious_device
  /\ suspicious_reported' = IF pc0.blk = "susp" THEN TRUE ELSE suspicious_reported
  /\ hid_speed_reported' = IF pc0.blk = "speed" THEN TRUE ELSE hid_speed_reported
  /\ shown' = IF pc0.blk = "speed" THEN shown + 1 ELSE shown
  /\ last_device' = IF pc0.blk = "speed"
                    THEN [last_device EXCEPT !.max_hid_speed = speed_peak(@, hid_current_speed)]
                    ELSE last_device
  /\ ev' = [op |-> "report", a |-> 0, b |-> 0]
  /\ UNCHANGED << shellVars, strbuf, suspicious_name, dev_info, now, pc1, bootVars, mscVars, hid_event_num, hid_mounted,
                  hid_window_start, hid_window_count, hid_current_speed, hid_speed_alert,
                  usbkiller, kbdVars, queueVars >>
  /\ Track("reporting")

\* line 485: usbkiller = false
loop_killer_clear ==
  /\ pc0 = At("killer_clear")
  /\ usbkiller' = FALSE
  /\ pc0' = At(NextBlock("killer"))
  /\ ev' = [op |-> "killer_clear", a |-> 0, b |-> 0]
  /\ UNCHANGED << shellVars, strbuf, suspVars, dev_info, now, pc1, bootVars, mscVars, baitVars, latchVars,
                  hidVars, current_gui_message, speedVars, kbdVars, last_device, queueVars >>
  /\ Track("reporting")

\* ------------------------------------------------------------------------
\* Soft reset
\* ------------------------------------------------------------------------
\* a reset that clears the record too
noinit_cleared(dev) == ZeroDevice

\* line 210: last_device is placed in .noinit, which the startup code that
\* runs after a reset neither loads nor zeroes
noinit(dev) == dev

\* swreset, lines 837-841: the watchdog is armed and core 0 spins until it
\* resets the chip. Both cores restart; every variable gets its initialiser
\* again (lines 148-216, the RAM disk of ramdisk.h included) except what lives
\* in .noinit and the flash.
swreset ==
  /\ pc0 = At("swreset")
  /\ now' = 0
  /\ pc0' = At("setup")
  /\ pc1' = "setup1"
  /\ msc_wr' = [b \in {} |-> <<"img", b>>]
  /\ computed_hash' = <<0, 0>>
  /\ msc_started' = FALSE
  /\ buffer' = << >>
  /\ access' = NoAccess
  /\ ret' = 0
  /\ msc_ops' = 0
  /\ readme' = FALSE /\ autorun' = FALSE /\ written' = FALSE /\ deleted' = FALSE
  /\ written_reported' = FALSE /\ deleted_reported' = FALSE
  /\ hid_sent' = FALSE /\ hid_reported' = FALSE /\ usbkiller' = FALSE
  /\ hid_event_num' = 0
  /\ current_gui_message' = Msg("Cerberus Ready", 0, 14)
  /\ hid_window_start' = 0 /\ hid_window_count' = 0 /\ hid_current_speed' = 0
  /\ hid_speed_alert' = FALSE /\ hid_speed_reported' = FALSE
  /\ kbd' = [prev_report |-> NoReport, ctrl_seq_count |-> 0, ctrl_is_spurious |-> FALSE]
  /\ cb' = NoCallback
  /\ hid_mounted' = FALSE
  /\ last_device' = noinit(last_device)
  /\ display_queue' = << >>
  /\ q_ret' = [op |-> "none", lib |-> FALSE, out |-> "none", pushes |-> 0, pops |-> 0]
  /\ kbd_out' = << >>
  /\ kbd_hist' = << >>
  /\ shown' = 0
  /\ suspicious_device' = FALSE /\ suspicious_reported' = FALSE
  /\ suspicious_name' = NoName
  /\ dev_info' = NoDevice
  /\ verbose_mode' = TRUE /\ show_hexdump' = FALSE /\ show_hid_debug' = FALSE
  /\ serial_out' = [line |-> << >>, out |-> ""]
  /\ descriptor_view_active' = FALSE /\ descriptor_page' = 0
  /\ rst_prev' = TRUE /\ ok_prev' = TRUE
  /\ strbuf' = NoBuffer
  /\ ev' = [op |-> "swreset", a |-> 0, b |-> 0]
  /\ UNCHANGED flash_bad
  /\ UNCHANGED writers

\* ------------------------------------------------------------------------
\* Power-on state
\* ------------------------------------------------------------------------
\* last_device lives in .noinit (line 210): at power-on it holds whatever the
\* RAM holds, after a soft reset what the previous run left.
GarbageDevice ==
  [vid |-> 57005, pid |-> 48879, device_class |-> 255, device_subclass |-> 255,
   manufacturer |-> << 63 >>, product |-> << 63 >>, serial |-> << 63 >>, timestamp |-> 65535,
   hid_events |-> 65535, max_hid_speed |-> 65535, was_suspicious |-> TRUE,
   suspicious_reason |-> [text |-> "?", len |-> 1],
   tail |-> [manufacturer |-> 63, product |-> 63, serial |-> 63, suspicious_reason |-> 63]]

NoinitDevices == {ZeroDevice, GarbageDevice}

\* the flashed images: the released one, and images with one block altered
\* inside (8) or outside (100) the hashed range
FlashImages == {{}, {8}, {100}}

\* The state at power-on, for a flashed image out of F and a .noinit content
\* out of D: the initialisers of lines 186-216.
InitOf(F, D, W) ==
  /\ now = 0
  /\ pc0 = At("setup")
  /\ pc1 = "setup1"
  /\ flash_bad \in F
  /\ msc_wr = [b \in {} |-> <<"img", b>>]
  /\ computed_hash = <<0, 0>>
  /\ msc_started = FALSE
  /\ buffer = << >>
  /\ access = NoAccess
  /\ ret = 0
  /\ msc_ops = 0
  /\ readme = FALSE /\ autorun = FALSE /\ written = FALSE /\ deleted = FALSE
  /\ written_reported = FALSE /\ deleted_reported = FALSE
  /\ hid_sent = FALSE /\ hid_reported = FALSE /\ usbkiller = FALSE
  /\ hid_event_num = 0
  /\ current_gui_message = Msg("Cerberus Ready", 0, 14)
  /\ hid_window_start = 0 /\ hid_window_count = 0 /\ hid_current_speed = 0
  /\ hid_speed_alert = FALSE /\ hid_speed_reported = FALSE
  /\ kbd = [prev_report |-> NoReport, ctrl_seq_count |-> 0, ctrl_is_spurious |-> FALSE]
  /\ cb = NoCallback
  /\ hid_mounted = FALSE
  /\ last_device \in D
  /\ display_queue = << >>
  /\ q_ret = [op |-> "none", lib |-> FALSE, out |-> "none", pushes |-> 0, pops |-> 0]
  /\ kbd_out = << >>
  /\ kbd_hist = << >>
  /\ shown = 0
  /\ suspicious_device = FALSE /\ suspicious_reported = FALSE
  /\ suspicious_name = NoName
  /\ dev_info = NoDevice
  /\ verbose_mode = TRUE /\ show_hexdump = FALSE /\ show_hid_debug = FALSE
  /\ serial_out = [line |-> << >>, out |-> ""]
  /\ descriptor_view_active = FALSE /\ descriptor_page = 0
  /\ rst_prev = TRUE /\ ok_prev = TRUE
  /\ strbuf = NoBuffer
  /\ writers = W
  /\ ev = [op |-> "boot", a |-> 0, b |-> 0]

InitWith(F, D) == InitOf(F, D, NoWriters)

\* ------------------------------------------------------------------------
\* SpecMsc: the honeypot callbacks over the block addresses around the guard
\* ------------------------------------------------------------------------
MscLbas == {0, 5, FAT_DIRECTORY_BLOCK, WRITE_NOISE_LBA, WRITE_NOISE_LBA + 1, 20,
            BLOCK_README, BLOCK_AUTORUN, DISK_BLOCK_NUM - 3, DISK_BLOCK_NUM - 2,
            DISK_BLOCK_NUM - 1, DISK_BLOCK_NUM, FAKE_DISK_BLOCK_NUM - 1}
MscSizes == {k * DISK_BLOCK_SIZE : k \in 1 .. MaxXferBlocks}
\* transfers of more than a block are tried from the blocks around the guard
\* on, and every payload on block 0, the directory block and the first block
\* that msc_disk does not back
MscSizesAt(lba) == IF lba >= DISK_BLOCK_NUM - 3 THEN MscSizes ELSE {DISK_BLOCK_SIZE}
MscPayloadsAt(lba) ==
  IF lba \in {0, FAT_DIRECTORY_BLOCK, DISK_BLOCK_NUM} THEN 1 .. MaxPayload ELSE {1}

InitMsc == InitWith({{}}, {ZeroDevice})

NextMsc ==
  \/ setup
  \/ \E lba \in MscLbas : \E bufsize \in MscSizesAt(lba) :
       msc_ops < MaxMscOps /\ msc_read_callback(lba, bufsize)
  \/ \E lba \in MscLbas : \E p \in MscPayloadsAt(lba), bufsize \in MscSizesAt(lba) :
       msc_ops < MaxMscOps /\ msc_write_callback(lba, p, bufsize)

SpecMsc == InitMsc /\ [][NextMsc]_vars

\* C1: every honeypot call, for any block address below the advertised
\* capacity and any transfer length, dereferences msc_disk only inside its
\* DISK_BLOCK_NUM * DISK_BLOCK_SIZE bytes.
C1_AccessInsideDisk ==
  access.kind # "none" =>
    access.lo >= 0 /\ access.hi <= DISK_BLOCK_NUM * DISK_BLOCK_SIZE

\* C2: a read of any block of the backing image, the last one included,
\* leaves that block's content in the caller's buffer.
C2_ReadCopiesEveryRealBlock ==
  (ev.op = "msc_read" /\ ev.a < DISK_BLOCK_NUM) => buffer[0] = msc_disk(ev.a)

\* C20: a read sets the readme flag if and only if it starts at block 100 and
\* the autorun flag if and only if it starts at block 102; the flag is then
\* set, however often the block is read; a read of any other block leaves
\* both flags as they were.
C20_ReadFlagsByBlock ==
  [][ev'.op = "msc_read" /\ msc_ops' = msc_ops + 1 =>
       /\ readme' = (readme \/ ev'.a = 100)
       /\ autorun' = (autorun \/ ev'.a = 102)]_vars

\* block 100 has been read and then a block that is neither 100 nor 102: the
\* readme flag is still set, the autorun flag still clear
C20_Witness ==
  /\ ev.op = "msc_read" /\ ev.a \notin {100, 102}
  /\ readme /\ ~autorun

\* C21: a write sets the "written" flag if and only if its block address is
\* above 10: a write to block 0..10 leaves the flag as it was, a write to block
\* 11 or above leaves it set, whether or not msc_disk backs the block.
C21_WrittenIffPastNoise ==
  [][ev'.op = "msc_write" /\ msc_ops' = msc_ops + 1 =>
       written' = (written \/ ev'.a > 10)]_vars

\* the flag is clear after a write to block 10, and set after a write to a
\* block that msc_disk does not back
C21_Witness ==
  /\ ev.op = "msc_write"
  /\ \/ ev.a = 10 /\ ~written
     \/ ev.a >= DISK_BLOCK_NUM /\ written

\* the buffer of the last write holds 0xE5 at one of the offsets
Tombstoned(offsets) ==
  \E off \in offsets : PayloadByte(buffer[0][2], off) = 229

\* C22: a write sets the "deleted" flag if and only if it goes to block 7 and
\* its buffer holds 0xE5 at offset 32, 64 or 160; a write to another block, or
\* to block 7 without 0xE5 at one of these offsets, leaves the flag as it was.
C22_DeletedIffTombstone ==
  [][ev'.op = "msc_write" /\ msc_ops' = msc_ops + 1 =>
       deleted' = (deleted \/ (ev'.a = 7 /\ Tombstoned({32, 64, 160})'))]_vars

\* a write to block 7 with 0xE5 at offset 0 only has left the flag clear, or a
\* write to block 7 with 0xE5 at offset 160 has set it
C22_Witness ==
  /\ ev.op = "msc_write" /\ ev.a = 7
  /\ \/ Tombstoned({0}) /\ ~deleted
     \/ Tombstoned({160}) /\ deleted

\* C23: a read or a write of a block at or past the real capacity returns the
\* requested length, touches no byte of msc_disk and leaves its content as it
\* was; every read and every write returns bufsize, whatever the block.
C23_OutOfRangeAccepted ==
  [][ev'.op \in {"msc_read", "msc_write"} /\ msc_ops' = msc_ops + 1 =>
       /\ ret' = ev'.b
       /\ ev'.a >= DISK_BLOCK_NUM => access' = NoAccess /\ msc_wr' = msc_wr]_vars

\* a write past the real capacity after a write that changed msc_disk
C23_Witness ==
  /\ ev.op = "msc_write" /\ ev.a >= DISK_BLOCK_NUM
  /\ ret = ev.b /\ access = NoAccess /\ DOMAIN msc_wr # {}

\* ------------------------------------------------------------------------
\* Spec: both cores from power-on, with a HID device on the host port and a
\* host computer on the honeypot
\* ------------------------------------------------------------------------
KeyA == [modifier |-> 0, keycode |-> <<4, 0, 0, 0, 0, 0>>]
Reports == {KeyA}
Commands == {<< >>, WORD_RESET}

Init == InitWith(FlashImages, {ZeroDevice})

\* the honeypot as a host computer sees it after enumeration
HostComputer ==
  /\ msc_ops < MaxHostOps
  /\ \/ msc_read_callback(BLOCK_README, DISK_BLOCK_SIZE)
     \/ msc_write_callback(FAT_DIRECTORY_BLOCK, 2, DISK_BLOCK_SIZE)

\* the device on the host port
HidDevice ==
  \/ tuh_mount_cb(5824, 1143, 0, 0)
  \/ \E ok \in BOOLEAN : print_device_descriptor(ok, NoStrings)
  \/ tuh_umount_cb
  \/ tuh_hid_mount_cb
  \/ tuh_hid_umount_cb
  \/ \E report \in Reports :
       /\ hid_event_num < MaxHidEvents
       /\ U16(last_device.hid_events + 1) <= MaxKeys
       /\ tuh_hid_report_received_cb(report, 0)
       /\ UNCHANGED kbd_hist

Next ==
  \/ setup
  \/ setup1
  \/ HostComputer
  \/ HidDevice
  \/ \E cmd \in Commands : loop_serial(cmd)
  \/ loop_drain_end
  \/ loop_test
  \/ loop_act

Spec == Init /\ [][Next]_vars

\* C3: the boot starts the storage interface exactly when the computed hash
\* is the burned-in value; after a mismatch the storage interface is never
\* started and no honeypot call is ever serviced.
C3_GateIffHashMatches ==
  /\ pc0.blk = "setup" => ~msc_started /\ msc_ops = 0
  /\ pc0.blk # "setup" =>
       /\ msc_started <=> computed_hash = valid_hash
       /\ (computed_hash = valid_hash) <=> (flash_bad \cap HashedBlocks = {})
       /\ computed_hash # valid_hash =>
            pc0.blk = "halted" /\ ~msc_started /\ msc_ops = 0 /\ access = NoAccess

\* a boot that failed the self test, with the host side running on
C3_Witness ==
  pc0.blk = "halted" /\ computed_hash # valid_hash /\ hid_event_num > 0

\* C4: after a failed self test nothing of the acquisition side runs again:
\* no HID mount or unmount, no report decoded, no key counted, no honeypot call.
C4_NothingRunsAfterHalt ==
  [][pc0.blk = "halted" =>
       /\ hid_mounted' = hid_mounted
       /\ hid_event_num' = hid_event_num
       /\ last_device' = last_device
       /\ msc_ops' = msc_ops]_vars

\* ------------------------------------------------------------------------
\* SpecClassify: devices of every kind of table row attach and are classified
\* ------------------------------------------------------------------------
\* vendors: unlisted, the end marker's, one with a leading wildcard, one with
\* specific rows only, one with specific rows before a wildcard
ClassifyVids == {39321, 0, 1452, 5824, 6991}
ClassifyPids == {0, 1, 1143, 4660, 37381, 37383}

NextClassify ==
  \/ setup1
  \/ \E vid \in ClassifyVids, pid \in ClassifyPids : tuh_mount_cb(vid, pid, 0, 0)
  \/ \E ok \in BOOLEAN : print_device_descriptor(ok, NoStrings)
  \/ tuh_umount_cb

SpecClassify == InitWith({{}}, {ZeroDevice}) /\ [][NextClassify]_vars

\* the label the table gives a device: that of the first row, in table order
\* and short of the end marker, whose vendor is the device's and whose product
\* is 0 or the device's; "" when there is no such row
Classified(vid, pid) ==
  LET hits == {i \in 1 .. SUSPICIOUS_COUNT :
                 /\ SUSPICIOUS_DEVICES[i].vid = vid
                 /\ SUSPICIOUS_DEVICES[i].pid \in {0, pid}}
  IN  IF hits = {} THEN ""
      ELSE SUSPICIOUS_DEVICES[CHOOSE i \in hits : \A j \in hits : i <= j].name

\* C5: a device whose descriptor has arrived is classified by the first
\* matching row of the table in table order, a product of 0 in a row matching
\* every product, and is not flagged when no row matches: (0x16C0, 0x0477)
\* is "DigiSpark", (0x1B4F, 0x1234) the vendor-only "Malduino?", (0x1B4F,
\* 0x9205) the specific row listed before it, (0x9999, 1) and (0, 0) nothing.
C5_ClassifyFirstMatch ==
  ev.op = "descriptor" =>
    /\ suspicious_name.text = Classified(ev.a, ev.b)
    /\ suspicious_device <=> Classified(ev.a, ev.b) # ""
    /\ last_device.was_suspicious <=> Classified(ev.a, ev.b) # ""
    /\ (ev.a = 5824 /\ ev.b = 1143) => suspicious_name.text = "DigiSpark"
    /\ (ev.a = 6991 /\ ev.b = 4660) => suspicious_name.text = "Malduino?"
    /\ (ev.a = 6991 /\ ev.b = 37381) => suspicious_name.text = "ProMicro 5V"
    /\ (ev.a = 39321 /\ ev.b = 1) => ~suspicious_device /\ suspicious_name = NoName
    /\ (ev.a = 0 /\ ev.b = 0) => ~suspicious_device /\ suspicious_name = NoName

\* a product the table does not list, of a vendor with a vendor-only row
C5_Witness ==
  ev = [op |-> "descriptor", a |-> 6991, b |-> 4660] /\ suspicious_name.text = "Malduino?"

\* ------------------------------------------------------------------------
\* SpecRate: a keyboard that types bursts of fresh keys, and the clock
\* ------------------------------------------------------------------------
\* a report with k keys of bank 0 (keycodes 4..9) or bank 1 (keycodes 10..15)
Burst(bank, k) ==
  [modifier |-> 0,
   keycode |-> [i \in 1 .. KEYCODE_SLOTS |-> IF i <= k THEN 3 + 6 * bank + i ELSE 0]]

\* the bursts that may follow the report prev: five or six keys, all of the
\* bank prev does not hold, so that every key of a burst is a fresh one
RateReports(prev) ==
  {Burst(IF prev.keycode[1] \in 4 .. 9 THEN 1 ELSE 0, k) : k \in KEYCODE_SLOTS - 1 .. KEYCODE_SLOTS}

InitRate == InitWith({{}}, {ZeroDevice})

NextRate ==
  \/ setup1
  \/ tuh_hid_mount_cb
  \/ Tick
  \/ \E report \in RateReports(kbd.prev_report) :
       /\ hid_event_num < MaxRateReports
       /\ hid_window_count <= MaxWindowKeys
       /\ tuh_hid_report_received_cb(report, 0)
       /\ UNCHANGED kbd_hist
  \/ kbd_resume /\ UNCHANGED kbd_hist

SpecRate == InitRate /\ [][NextRate]_vars

\* C6: with no alert active, the window that closes with n keys counted
\* raises the alert exactly when n * 1000 / HID_SPEED_WINDOW_MS is over
\* HID_SPEED_THRESHOLD, and raises it with hid_speed_reported false: 45 keys
\* raise it, 35 and 40 do not. The alert is set (line 1534) in the step before
\* the one that closes the window (lines 1535-1540).
C6_AlertIffOverThreshold ==
  [][/\ (~hid_speed_alert /\ hid_speed_alert') =>
          /\ (hid_window_count * 1000) \div HID_SPEED_WINDOW_MS > HID_SPEED_THRESHOLD
          /\ hid_window_count \notin {35, 40}
          /\ hid_current_speed' = (hid_window_count * 1000) \div HID_SPEED_WINDOW_MS
          /\ pc1' = "speed_w2"
     /\ (hid_window_start' # hid_window_start /\ pc1 = "idle" /\ ~hid_speed_alert) =>
          /\ ~hid_speed_alert'
          /\ (hid_window_count * 1000) \div HID_SPEED_WINDOW_MS <= HID_SPEED_THRESHOLD
          /\ hid_window_count # 45
     /\ (pc1 = "speed_w2" /\ pc1' = "idle") =>
          /\ hid_window_start' # hid_window_start
          /\ hid_speed_alert' /\ ~hid_speed_reported'
    ]_vars

\* the window of 45 keys has closed and raised the alert
C6_Witness ==
  /\ hid_speed_alert /\ ~hid_speed_reported /\ hid_current_speed = 45
  /\ pc1 = "idle" /\ hid_window_start > 0

\* ------------------------------------------------------------------------
\* SpecAlert: the detector on core 1 against the reporting loop and the
\* command shell on core 0, with the keyboard typing and detaching
\* ------------------------------------------------------------------------
\* bursts of six fresh keys
AlertReports(prev) == {Burst(IF prev.keycode[1] \in 4 .. 9 THEN 1 ELSE 0, KEYCODE_SLOTS)}

InitAlert == InitWith({{}}, {ZeroDevice})

NextAlert ==
  \/ setup
  \/ setup1
  \/ Tick
  \/ tuh_hid_mount_cb
  \/ tuh_hid_umount_cb
  \/ \E report \in AlertReports(kbd.prev_report) :
       /\ last_device.hid_events < MaxAlertKeys
       /\ tuh_hid_report_received_cb(report, 0)
       /\ UNCHANGED kbd_hist
  \/ kbd_resume /\ UNCHANGED kbd_hist
  \/ \E cmd \in Commands : loop_serial(cmd)
  \/ loop_drain_end
  \/ loop_test
  \/ loop_act

SpecAlert == InitAlert /\ [][NextAlert]_vars

\* C7: once set, the alert is cleared by the RESET command and by the detach
\* of the device, and by nothing else: after a detach it is off.
C7_DetachClearsAlert ==
  ev.op = "hid_umount" => ~hid_speed_alert

\* C8: in one alert episode, from the detector setting hid_speed_alert to its
\* being cleared, loop() surfaces the alert at most once, however the two
\* writes of the detector interleave with the loop's test and set.
C8_ReportedOncePerEpisode ==
  shown <= 1

\* ------------------------------------------------------------------------
\* SpecKbd: a keyboard typing keys with and without CTRL
\* ------------------------------------------------------------------------
Press(modifier, key) == [modifier |-> modifier, keycode |-> <<key, 0, 0, 0, 0, 0>>]

\* release, CTRL+a, CTRL+b, a, b
KbdReports == {NoReport, Press(1, 4), Press(1, 5), Press(0, 4), Press(0, 5)}

\* kbd_hist after the callback for report: the last HistLen reports that held
\* a key, each with whether it carried CTRL, whether it held a fresh key, and
\* what was printed for it
KbdObserve(report) ==
  kbd_hist' =
    IF pc1' = "idle" /\ report_has_key(report)
    THEN LET h == Append(kbd_hist,
                         [ctrl |-> report_has_ctrl(report),
                          fresh |-> FreshKeys(report, kbd.prev_report) # {},
                          out |-> kbd_out'])
         IN  IF Len(h) > HistLen THEN Tail(h) ELSE h
    ELSE kbd_hist

InitKbd == InitWith({{}}, {ZeroDevice})

NextKbd ==
  \/ setup1
  \/ tuh_hid_mount_cb
  \/ \E report \in KbdReports :
       /\ hid_event_num < MaxKbdReports
       /\ tuh_hid_report_received_cb(report, 0)
       /\ KbdObserve(report)

SpecKbd == InitKbd /\ [][NextKbd]_vars

\* the last n reports with a key were all fresh presses carrying CTRL
CtrlRun(n) ==
  /\ Len(kbd_hist) >= n
  /\ \A i \in Len(kbd_hist) - n + 1 .. Len(kbd_hist) : kbd_hist[i].ctrl /\ kbd_hist[i].fresh

LastPress == kbd_hist[Len(kbd_hist)]

\* C9: after three consecutive fresh presses that carry CTRL the fourth is
\* printed without the CTRL+ prefix; a press without CTRL clears the filter and
\* the counter; the CTRL-bearing press after it is printed with the prefix.
C9_SpuriousCtrlFilter ==
  /\ CtrlRun(4) =>
       /\ kbd.ctrl_is_spurious
       /\ LastPress.out # << >>
       /\ \A j \in DOMAIN LastPress.out : ~LastPress.out[j].ctrl
  /\ (Len(kbd_hist) >= 1 /\ ~LastPress.ctrl) =>
       kbd.ctrl_seq_count = 0 /\ ~kbd.ctrl_is_spurious
  /\ (Len(kbd_hist) >= 2 /\ ~kbd_hist[Len(kbd_hist) - 1].ctrl /\ CtrlRun(1)) =>
       /\ kbd.ctrl_seq_count = 1 /\ ~kbd.ctrl_is_spurious
       /\ LastPress.out # << >>
       /\ \A j \in DOMAIN LastPress.out : LastPress.out[j].ctrl

\* the fourth of four fresh CTRL presses in a row has been printed
C9_Witness ==
  CtrlRun(4) /\ kbd_out # << >> /\ ~kbd_out[1].ctrl /\ pc1 = "idle"

\* C24: the spurious-CTRL run counter advances only on a report that holds a
\* fresh key press and carries CTRL; a report with no key leaves the counter
\* and the filter as they were; a report that only repeats keys held in the
\* previous report does not advance the counter.
C24_CtrlRunCountsFreshPresses ==
  [][ev'.op = "hid_report" /\ pc1' = "idle" /\ hid_event_num' = hid_event_num + 1 =>
       /\ ~report_has_key(kbd'.prev_report) =>
            /\ kbd'.ctrl_seq_count = kbd.ctrl_seq_count
            /\ kbd'.ctrl_is_spurious = kbd.ctrl_is_spurious
       /\ kbd'.ctrl_seq_count > kbd.ctrl_seq_count =>
            HasCtrl(ev'.a) /\ ev'.b > 0]_vars

\* C25: a report adds to hid_event_num, to last_device.hid_events and to the
\* window count of the detector one for each of its keycodes that the previous
\* report does not hold, and nothing for held keys, for a release report or
\* for a report without a fresh press.
C25_CountersFollowFreshPresses ==
  [][ev'.op = "hid_report" /\ pc1' = "idle" =>
       /\ hid_event_num' = hid_event_num + ev'.b
       /\ last_device'.hid_events = U16(last_device.hid_events + ev'.b)
       /\ hid_window_start' = hid_window_start =>
            hid_window_count' = hid_window_count + ev'.b]_vars

\* ------------------------------------------------------------------------
\* SpecBus: a producer on core 1 calling enqueue_display, loop() draining
\* ------------------------------------------------------------------------
\* every second notification is longer than an entry holds
BusLen(k) == IF k % 2 = 0 THEN DISPLAY_MSG_SIZE + 6 ELSE 10

BusEntry(k) == Msg("evt", k, BusLen(k))

InitBus == InitWith({{}}, {ZeroDevice})

NextBus ==
  \/ setup
  \/ setup1
  \/ q_ret.pushes < MaxPushes /\ enqueue_display("evt", BusLen(q_ret.pushes + 1))
  \/ loop_serial(<< >>)
  \/ loop_drain_pop
  \/ loop_drain_end
  \/ loop_test

SpecBus == InitBus /\ [][NextBus]_vars

\* C10 as stated: the push that finds the queue full hands a drop indicator
\* (false) back to its caller.
C10_DropIndicatorReturned ==
  (q_ret.op = "add" /\ ~q_ret.lib) => q_ret.out = "false"

\* C10, amended: the queue never holds more than QUEUE_CAPACITY entries and
\* holds them in the order pushed; a push into a full queue leaves it as it is
\* and hands nothing back to its caller (enqueue_display is void, the false of
\* queue_try_add is dropped); any other push appends its entry; a pop takes
\* the oldest entry; QUEUE_CAPACITY + 1 pushes with none drained leave the
\* first QUEUE_CAPACITY entries.
C10_BoundedFifoSilentDrop ==
  [][/\ Len(display_queue') <= QUEUE_CAPACITY
     /\ \A i, j \in DOMAIN display_queue' : i < j => display_queue'[i].n < display_queue'[j].n
     /\ (q_ret'.pushes = q_ret.pushes + 1 /\ Len(display_queue) = QUEUE_CAPACITY) =>
          display_queue' = display_queue /\ ~q_ret'.lib /\ q_ret'.out = "void"
     /\ (q_ret'.pushes = q_ret.pushes + 1 /\ Len(display_queue) < QUEUE_CAPACITY) =>
          /\ display_queue' = Append(display_queue, BusEntry(q_ret'.pushes))
          /\ q_ret'.lib /\ q_ret'.out = "void"
     /\ q_ret'.pops = q_ret.pops + 1 =>
          /\ current_gui_message' = Head(display_queue)
          /\ display_queue' = Tail(display_queue)
     /\ (q_ret'.pops = 0 /\ q_ret'.pushes > QUEUE_CAPACITY) =>
          display_queue' = [i \in 1 .. QUEUE_CAPACITY |-> BusEntry(i)]
    ]_vars

\* the push after QUEUE_CAPACITY undrained ones has been dropped
C10_Witness ==
  /\ q_ret.pushes = QUEUE_CAPACITY + 1 /\ q_ret.pops = 0
  /\ q_ret.op = "add" /\ ~q_ret.lib
  /\ Len(display_queue) = QUEUE_CAPACITY

\* ------------------------------------------------------------------------
\* SpecWriters: both sides at work on the shared fields, with the writers of
\* each field recorded
\* ------------------------------------------------------------------------
InitWriters == InitOf({{}}, {ZeroDevice}, FreshWriters)

NextWriters ==
  \/ setup
  \/ setup1
  \/ msc_ops < MaxHostOps /\ msc_read_callback(BLOCK_README, DISK_BLOCK_SIZE)
  \/ tuh_hid_mount_cb
  \/ tuh_hid_umount_cb
  \/ tuh_msc_mount_cb
  \/ tuh_cdc_mount_cb
  \/ \E report \in Reports :
       /\ hid_event_num < MaxHidEvents
       /\ U16(last_device.hid_events + 1) <= MaxKeys
       /\ tuh_hid_report_received_cb(report, 0)
       /\ UNCHANGED kbd_hist
  \/ \E cmd \in Commands : loop_serial(cmd)
  \/ loop_drain_end
  \/ loop_test
  \/ loop_act

SpecWriters == InitWriters /\ [][NextWriters]_vars

\* C11: every field shared between the acquisition side and the reporting
\* side has one writer side: no field has been written by both.
C11_SingleWriterPerField ==
  \A f \in DOMAIN writers : ~({"acquisition", "reporting"} \subseteq writers[f])

\* C26: a notification of the acquisition side reaches the reporting side
\* through display_queue only: no callback of core 1 has written
\* current_gui_message.
C26_NotificationsThroughBus ==
  \A f \in DOMAIN writers \cap {"current_gui_message"} : "acquisition" \notin writers[f]

\* C27: at power-on, before any capture, the forensics record is cleared (its
\* vendor and product id are 0, LAST answers that no device was recorded); a
\* record that holds a device is cleared by the CLEAR command only.
C27_FirstBootRecordCleared ==
  /\ [](ev.op = "boot" =>
          /\ last_device.vid = 0 /\ last_device.pid = 0
          /\ print_last_device(last_device) = << "No device recorded" >>)
  /\ [][last_device # ZeroDevice /\ last_device' = ZeroDevice => ev'.op = "CLEAR"]_vars

\* ------------------------------------------------------------------------
\* SpecVerdict: the descriptor callback on core 1 against the shell on core 0
\* ------------------------------------------------------------------------
\* a DigiSpark, an Arduino Micro bootloader (the label of 16 characters), a
\* keyboard that is in no entry of the table
VerdictDevices == {<<5824, 1143>>, <<9025, 55>>, <<1133, 49948>>}
VerdictCommands == {<< >>, WORD_CLEAR, WORD_RESET}

InitVerdict == InitWith({{}}, {ZeroDevice})

NextVerdict ==
  \/ setup
  \/ setup1
  \/ \E d \in VerdictDevices : tuh_mount_cb(d[1], d[2], 0, 0)
  \/ print_device_descriptor_save
  \/ print_device_descriptor_mark(NoStrings)
  \/ print_device_descriptor(FALSE, NoStrings)
  \/ tuh_umount_cb
  \/ \E cmd \in VerdictCommands : loop_serial(cmd)
  \/ loop_drain_end
  \/ loop_test
  \/ loop_act

SpecVerdict == InitVerdict /\ [][NextVerdict]_vars

\* C28: whenever the descriptor callback is not in progress, the verdict of
\* the record agrees with the classification of the ids the record holds:
\* was_suspicious is true, with the label cut to the size of its field, exactly
\* when check_suspicious_device finds an entry for them.
C28_VerdictAgreesWithIds ==
  pc1 # "descriptor" =>
    LET match == check_suspicious_device(last_device.vid, last_device.pid)
    IN  /\ last_device.was_suspicious = match.found
        /\ match.found =>
             last_device.suspicious_reason = strncpy(match.name, match.len, LAST_REASON_SIZE - 1)

\* C29: a detach resets the per-device state. tuh_umount_cb leaves dev_info
\* as it is before the first attach: not mounted, ids 0, strings empty. tuh_hid_umount_cb leaves the
\* decoder as it is after boot: no held key, the CTRL run counter 0 and the
\* filter off, the window count 0 and the alert off, hid_sent, hid_reported
\* and hid_event_num cleared.
C29_DetachResetsDeviceState ==
  [][(dev_info.mounted /\ ev'.op = "umount" =>
          dev_info' = NoDevice)
      /\ (hid_mounted /\ ev'.op = "hid_umount" =>
            /\ kbd' = [prev_report |-> NoReport, ctrl_seq_count |-> 0,
                       ctrl_is_spurious |-> FALSE]
            /\ hid_window_count' = 0 /\ ~hid_speed_alert'
            /\ ~hid_sent' /\ ~hid_reported' /\ hid_event_num' = 0)]_vars

\* ------------------------------------------------------------------------
\* SpecKiller: the tamper interrupt against the polling loop
\* ------------------------------------------------------------------------
InitKiller == InitWith({{}}, {ZeroDevice})

\* one pass of loop(), step by step
LoopStep ==
  \/ loop_serial(<< >>)
  \/ loop_drain_end
  \/ loop_test
  \/ loop_act
  \/ loop_killer_clear

NextKiller ==
  \/ setup
  \/ setup1
  \/ Tick
  \/ \E low \in BOOLEAN : detectUSBKiller(low)
  \/ msc_ops < MaxHostOps /\ msc_read_callback(BLOCK_README, DISK_BLOCK_SIZE)
  \/ LoopStep

SpecKiller == InitKiller /\ [][NextKiller]_vars

\* loop() is the body of an endless loop and setup() returns: core 0 keeps
\* taking its next step. The interrupt and the host computer come when they
\* come.
LiveKiller == SpecKiller /\ WF_vars(setup) /\ WF_vars(LoopStep)

\* the interrupt has just set the flag
KillerRaised == ev.op = "isr" /\ ev.a = 1

\* loop() has just shown the notification
KillerNotified == ev.op = "report" /\ current_gui_message = Msg("USB Killer", 0, 10)

\* C12: the tamper interrupt changes nothing but usbkiller, and in every
\* interleaving of the interrupt with the steps of loop(), each interrupt that
\* sets the flag is followed by a later "USB Killer" notification.
C12_NoTamperEventLost ==
  /\ [][ev'.op = "isr" /\ ev' # ev =>
          UNCHANGED << now, pc0, pc1, bootVars, mscVars, baitVars, latchVars, hidVars,
                       current_gui_message, speedVars, kbdVars, last_device, queueVars,
                       suspVars, dev_info, shellVars, strbuf >>]_vars
  /\ (KillerRaised ~> KillerNotified)

\* ------------------------------------------------------------------------
\* SpecForensics: devices come and go on the host port while the operator
\* uses RESET, CLEAR and REBOOT
\* ------------------------------------------------------------------------
\* a keyboard with three strings, and a device of the suspicious table with a
\* class, a manufacturer and a serial but no product string
ForensicDevices ==
  { [vid |-> 1133, pid |-> 49948, class |-> 0, subclass |-> 0,
     strs |-> [manufacturer |-> << 76, 111 >>, product |-> << 75 >>, serial |-> << 49 >>]],
    [vid |-> 5824, pid |-> 1143, class |-> 239, subclass |-> 2,
     strs |-> [manufacturer |-> << 84 >>, product |-> << >>, serial |-> << 50 >>]] }

ForensicCommands == {<< >>, WORD_CLEAR, WORD_REBOOT}

InitForensics == InitWith({{}}, {ZeroDevice})

NextForensics ==
  \/ setup
  \/ setup1
  \/ Tick
  \/ \E d \in ForensicDevices : tuh_mount_cb(d.vid, d.pid, d.class, d.subclass)
  \/ \E ok \in BOOLEAN, d \in ForensicDevices :
       /\ d.vid = dev_info.answer.vid
       /\ print_device_descriptor(ok, d.strs)
  \/ tuh_umount_cb
  \/ \E cmd \in ForensicCommands : loop_serial(cmd)
  \/ loop_drain_end
  \/ loop_test
  \/ loop_act
  \/ swreset

SpecForensics == InitForensics /\ [][NextForensics]_vars

\* the step in which a device-descriptor fetch completes with success
DescriptorFetched ==
  dev_info.pending /\ ~dev_info'.pending /\ ev'.op = "descriptor"

\* C13: once the device-descriptor fetch of an attached device has succeeded,
\* the forensics record holds that device's vid, pid, class and subclass, the
\* decoded manufacturer, product and serial strings now in the device's
\* buffers, and the time of the capture; its event count and peak rate are
\* zero and its suspicion fields speak of this device only.
C13_SnapshotOfFetchedDevice ==
  [][DescriptorFetched =>
       /\ last_device'.vid = dev_info.answer.vid
       /\ last_device'.pid = dev_info.answer.pid
       /\ last_device'.device_class = dev_info.answer.class
       /\ last_device'.device_subclass = dev_info.answer.subclass
       /\ last_device'.manufacturer =
            strncpy_bytes(dev_info'.manufacturer, LAST_MANUFACTURER_SIZE - 1)
       /\ last_device'.product = strncpy_bytes(dev_info'.product, LAST_PRODUCT_SIZE - 1)
       /\ last_device'.serial = strncpy_bytes(dev_info'.serial, LAST_SERIAL_SIZE - 1)
       /\ last_device'.timestamp = now
       /\ last_device'.hid_events = 0
       /\ last_device'.max_hid_speed = 0
       /\ last_device'.was_suspicious =
            (Classified(dev_info.answer.vid, dev_info.answer.pid) # "")
       /\ last_device'.suspicious_reason.text =
            Classified(dev_info.answer.vid, dev_info.answer.pid)]_vars

\* the step in which the shell runs the command word
CommandStep(word) ==
  pc0 = At("serial") /\ pc0' # pc0 /\ ev'.op = word

\* C14: a capture followed by CLEAR leaves the record with vendor and product
\* 0, every counter and the peak rate 0, the verdict false and every string
\* empty.
C14_ClearZeroesRecord ==
  [][CommandStep("CLEAR") =>
       /\ last_device'.vid = 0 /\ last_device'.pid = 0
       /\ last_device'.device_class = 0 /\ last_device'.device_subclass = 0
       /\ last_device'.timestamp = 0
       /\ last_device'.hid_events = 0 /\ last_device'.max_hid_speed = 0
       /\ last_device'.was_suspicious = FALSE
       /\ last_device'.manufacturer = << >> /\ last_device'.product = << >>
       /\ last_device'.serial = << >> /\ last_device'.suspicious_reason = NoName]_vars

\* CLEAR has just run on the record of a device that is still attached, its
\* strings fetched
C14_Witness ==
  /\ ev.op = "CLEAR"
  /\ dev_info.mounted /\ ~dev_info.pending /\ dev_info.manufacturer # << >>
  /\ last_device.vid = 0 /\ last_device.manufacturer = << >>

\* C15: a soft reset leaves every field of the forensics record as it was
\* when the reset came, through the boot sequence that follows, while every
\* other counter and flag is back at its initial value.
C15_RecordSurvivesSoftReset ==
  /\ [][pc0 = At("swreset") /\ pc0' = At("setup") =>
          /\ last_device' = last_device
          /\ hid_event_num' = 0 /\ hid_window_count' = 0 /\ hid_current_speed' = 0
          /\ hid_window_start' = 0 /\ now' = 0
          /\ ~readme' /\ ~autorun' /\ ~written' /\ ~deleted' /\ ~usbkiller'
          /\ ~written_reported' /\ ~deleted_reported' /\ ~hid_sent' /\ ~hid_reported'
          /\ ~hid_speed_alert' /\ ~hid_speed_reported'
          /\ ~suspicious_device' /\ ~suspicious_reported' /\ suspicious_name' = NoName
          /\ verbose_mode' /\ ~show_hexdump' /\ ~show_hid_debug'
          /\ current_gui_message' = Msg("Cerberus Ready", 0, 14)
          /\ dev_info' = NoDevice /\ display_queue' = << >> /\ ~msc_started']_vars
  /\ [][(pc0 = At("setup") /\ pc0' # pc0) \/ (pc1 = "setup1" /\ pc1' = "idle") =>
          last_device' = last_device]_vars

\* the chip has just come out of a soft reset with a captured record
C15_Witness ==
  /\ ev.op = "swreset" /\ pc0 = At("setup")
  /\ last_device.vid # 0 /\ last_device.manufacturer # << >>

\* C16: RESET zeroes the HID event counter, the window count, the current
\* rate, alert-active, alert-reported and the written, deleted, HID and
\* suspicious reported latches, and leaves every field of the forensics
\* record as it was.
C16_ResetKeepsRecord ==
  [][CommandStep("RESET") =>
       /\ hid_event_num' = 0 /\ hid_window_count' = 0 /\ hid_current_speed' = 0
       /\ ~hid_speed_alert' /\ ~hid_speed_reported'
       /\ ~written_reported' /\ ~deleted_reported' /\ ~hid_reported'
       /\ ~suspicious_reported'
       /\ last_device' = last_device]_vars

\* RESET has just run with a device captured and a key counted
C16_Witness ==
  /\ ev.op = "RESET"
  /\ last_device.vid # 0 /\ last_device.hid_events > 0 /\ last_device.was_suspicious
  /\ hid_event_num = 0 /\ hid_mounted

\* ------------------------------------------------------------------------
\* SpecShell: the operator types lines at the serial shell
\* ------------------------------------------------------------------------
CommandWords ==
  { [word |-> WORD_HELP, name |-> "HELP"], [word |-> WORD_STATUS, name |-> "STATUS"],
    [word |-> WORD_LAST, name |-> "LAST"], [word |-> WORD_RESET, name |-> "RESET"],
    [word |-> WORD_REBOOT, name |-> "REBOOT"], [word |-> WORD_VERBOSE, name |-> "VERBOSE"],
    [word |-> WORD_HEXDUMP, name |-> "HEXDUMP"], [word |-> WORD_HIDDEBUG, name |-> "HIDDEBUG"],
    [word |-> WORD_CLEAR, name |-> "CLEAR"] }

\* a word typed in lower case, and with every second letter in lower case
Lower(w) == [i \in 1 .. Len(w) |-> w[i] + 32]
Mixed(w) == [i \in 1 .. Len(w) |-> IF i % 2 = 0 THEN w[i] + 32 ELSE w[i]]

\* the lines typed: every command in three spellings, the empty line, lines
\* of blanks (space is 32, tab 9), "?", "X", and commands with a blank
\* before or after
ShellLines ==
  UNION {{c.word, Lower(c.word), Mixed(c.word)} : c \in CommandWords}
    \cup { << >>, << 32 >>, << 32, 32 >>, << 9 >>, << 63 >>, << 88 >>,
           WORD_HELP \o << 32 >>, << 32 >> \o Lower(WORD_CLEAR) }

InitShell == InitWith({{}}, NoinitDevices)

NextShell ==
  \/ setup
  \/ \E chars \in ShellLines : loop_serial(chars)
  \/ loop_drain_end
  \/ loop_test
  \/ swreset

SpecShell == InitShell /\ [][NextShell]_vars

\* the line spells the word, in whatever letter case
SameWord(line, w) ==
  Len(line) = Len(w) /\ \A i \in 1 .. Len(w) : line[i] \in {w[i], w[i] + 32}

\* the line is empty or holds blanks only
IsBlank(line) == \A i \in 1 .. Len(line) : line[i] \in {32, 9}

\* nothing but the position of loop() and the record of the shell's answer
\* changes
ShellLeavesState ==
  UNCHANGED << now, pc1, bootVars, mscVars, baitVars, latchVars, hidVars, usbkiller,
               current_gui_message, speedVars, kbdVars, last_device, queueVars, suspVars,
               dev_info, verbose_mode, show_hexdump, show_hid_debug, strbuf >>

\* C17: each of the nine commands is recognised in any letter case; a line
\* that is empty or holds only whitespace gets no response and changes no
\* state; every other line gets the unknown-command response and changes no
\* state.
C17_CommandDispatch ==
  [][pc0 = At("serial") /\ pc0' # pc0 =>
       LET line == serial_out'.line
           said == serial_out'.out
       IN  IF \E c \in CommandWords : SameWord(line, c.word)
           THEN \A c \in CommandWords : SameWord(line, c.word) => said = c.name
           ELSE IF IsBlank(line) THEN said = "" /\ ShellLeavesState
           ELSE said = "UNKNOWN" /\ ShellLeavesState]_vars

\* ------------------------------------------------------------------------
\* SpecDecode: utf16_to_utf8 on the serial-number buffer, for every length
\* byte and for every short string over an alphabet with units of each size
\* ------------------------------------------------------------------------
\* 'A', e acute (2 bytes in UTF-8), a CJK ideograph (3 bytes)
DecodeAlphabet == {65, 233, 20013}

\* a buffer of size bytes and the MemSlack bytes after it: the length byte
\* bLength, the descriptor type, then the units us over and over
MemoryWith(bLength, us, size) ==
  [a \in 1 .. size + MemSlack |->
     IF a = 1 THEN bLength
     ELSE IF a = 2 THEN 3
     ELSE LET u == us[(((a - 3) \div 2) % Len(us)) + 1]
          IN  IF a % 2 = 1 THEN u % 256 ELSE u \div 256]

DecodeInputs ==
  {MemoryWith(bLength, us, DEV_SERIAL_SIZE) :
     bLength \in 0 .. 255, us \in {<< 65, 66 >>, << 233, 65 >>, << 20013 >>}}
  \cup
  {MemoryWith(2 + 2 * MaxUnits, us, DEV_SERIAL_SIZE) :
     us \in [1 .. MaxUnits -> DecodeAlphabet]}

InitDecode == InitWith({{}}, {ZeroDevice})

NextDecode ==
  \/ setup1
  \/ \E mem \in DecodeInputs : strbuf = NoBuffer /\ decode_string(mem, DEV_SERIAL_SIZE)

SpecDecode == InitDecode /\ [][NextDecode]_vars

\* the bytes UTF-8 takes for a unit
Utf8Size(chr) == IF chr < 128 THEN 1 ELSE IF chr < 2048 THEN 2 ELSE 3

\* the bytes UTF-8 takes for the first n units of the descriptor desc
RECURSIVE Utf8Total(_, _)
Utf8Total(desc, n) ==
  IF n = 0 THEN 0
  ELSE Utf8Total(desc, n - 1) + Utf8Size(desc[2 * n + 1] + 256 * desc[2 * n + 2])

\* the call was on a descriptor that lies inside the buffer with its length
\* byte, and whose decoded text with its terminator fits the buffer
DecodedWellFormed ==
  /\ strbuf.desc # << >>
  /\ strbuf.desc[1] >= 2 /\ strbuf.desc[1] <= strbuf.buf_len
  /\ Utf8Total(strbuf.desc, (strbuf.desc[1] - 2) \div 2) + 1 <= strbuf.buf_len

\* C18: the decoder converts (L - 2) / 2 units, L the first byte, writing 1
\* byte for a unit below 0x80, 2 below 0x800 and 3 otherwise, and puts the
\* terminator right after the last byte it emitted; a descriptor of length 6
\* for "AB" decodes to 'A', 'B', 0.
C18_DecodeUnitsAndTerminator ==
  DecodedWellFormed =>
    LET n == (strbuf.desc[1] - 2) \div 2
    IN  /\ strbuf.units = n
        /\ strbuf.emitted = Utf8Total(strbuf.desc, n)
        /\ strbuf.mem[strbuf.emitted + 1] = 0
        /\ \A a \in 1 .. strbuf.emitted : strbuf.mem[a] # 0
        /\ (SubSeq(strbuf.desc, 1, 6) = << 6, 3, 65, 0, 66, 0 >> =>
              SubSeq(strbuf.mem, 1, 3) = << 65, 66, 0 >>)

\* C19: for every length byte and every content the decoder reads and writes
\* inside the buf_len bytes of its buffer only, the terminator included.
C19_DecodeStaysInBuffer ==
  strbuf.rd <= strbuf.buf_len /\ strbuf.wr <= strbuf.buf_len

\* the strings the attached device answers with
AttachedStrings ==
  (CHOOSE d \in ForensicDevices : d.vid = dev_info.answer.vid).strs

\* C30: a failed descriptor transfer is not fatal and fills no string of
\* dev_info. When the device descriptor fails, dev_info, the record and the
\* suspicion state stay as they were and core 1 is back in its loop; when it
\* arrives, the device is classified on its ids, and each string whose
\* transfer fails stays as it was.
C30_FailedTransferNotFatal ==
  [][/\ dev_info.pending /\ ev'.op = "descriptor_failed" =>
          /\ dev_info' = [dev_info EXCEPT !.pending = FALSE]
          /\ last_device' = last_device
          /\ UNCHANGED << suspVars, pc0 >>
          /\ pc1' = "idle"
     /\ dev_info.pending /\ ev'.op = "descriptor" =>
          /\ suspicious_device' = (suspicious_device \/ Classified(ev'.a, ev'.b) # "")
          /\ last_device'.was_suspicious = (Classified(ev'.a, ev'.b) # "")
          /\ AttachedStrings.manufacturer = << >> =>
               dev_info'.manufacturer = dev_info.manufacturer
          /\ AttachedStrings.product = << >> => dev_info'.product = dev_info.product
          /\ AttachedStrings.serial = << >> => dev_info'.serial = dev_info.serial
          /\ pc1' = "idle"]_vars

\* the DigiSpark has been classified although its product string could not be
\* fetched; the product string of the device attached before it is still in
\* dev_info
C30_Witness ==
  /\ ev.op = "descriptor" /\ ev.a = 5824
  /\ suspicious_device /\ last_device.was_suspicious
  /\ dev_info.product # << >>

\* ------------------------------------------------------------------------
\* The peak rate of the forensics record
\* ------------------------------------------------------------------------
\* C31: last_device.max_hid_speed is the maximum of the windowed rates
\* computed since the capture: once the loop has passed its speed block
\* (lines 531-543) after a window close, the peak is at least the rate the
\* close computed, and whenever the peak changes it becomes a computed rate.
C31_PeakIsMaxOfRates ==
  [][/\ (pc0.blk = "speed" /\ pc0'.blk = "serial" /\ hid_current_speed' > 0) =>
          last_device'.max_hid_speed >= hid_current_speed'
     /\ (last_device'.max_hid_speed # last_device.max_hid_speed) =>
          last_device'.max_hid_speed \in {0, hid_current_speed'}
    ]_vars

\* ------------------------------------------------------------------------
\* The detach callbacks against the reporting loop
\* ------------------------------------------------------------------------
\* C32: the reset of a detach callback is not undone by the loop iteration
\* that runs beside it: with the HID interface unmounted (the device
\* detached) and the loop between two iterations, hid_reported
\* (suspicious_reported) is false.
C32_DetachResetNotUndone ==
  /\ (~hid_mounted /\ pc0 = At("serial")) => ~hid_reported
  /\ (~dev_info.mounted /\ pc0 = At("serial")) => ~suspicious_reported

\* C33: when loop() surfaces the automated-typing alert (lines 532-542), the
\* rate it shows and offers to the forensics peak, hid_current_speed as read
\* at that moment, is over HID_SPEED_THRESHOLD.
C33_SurfacedRateOverThreshold ==
  [][(pc0 = [blk |-> "speed", act |-> TRUE] /\ ~hid_speed_reported /\ hid_speed_reported') =>
       /\ current_gui_message'.n > HID_SPEED_THRESHOLD
       /\ hid_current_speed > HID_SPEED_THRESHOLD
    ]_vars

\* ------------------------------------------------------------------------
\* SpecKeys: a keyboard sending single presses of any keycode
\* ------------------------------------------------------------------------
\* keycodes at the edges of the table, a modifier keycode (0xE0) and 255
KeyCodes == {4, 57, KEYCODE_TABLE_SIZE - 1, KEYCODE_TABLE_SIZE, 224, 255}

\* without and with left shift
KeyReports == {Press(m, k) : m \in {0, 2}, k \in KeyCodes}

\* the byte that lies behind the table: 0 or a printable one
TableBytes == {0, 65}

InitKeys == InitWith({{}}, {ZeroDevice})

NextKeys ==
  \/ setup1
  \/ tuh_hid_mount_cb
  \/ \E report \in KeyReports, g \in TableBytes :
       /\ hid_event_num < MaxKbdReports
       /\ tuh_hid_report_received_cb(report, g)
       /\ UNCHANGED kbd_hist

SpecKeys == InitKeys /\ [][NextKeys]_vars

\* C34: for every report, the row of keycode2ascii read for each of its
\* fresh keys lies within the KEYCODE_TABLE_SIZE rows of the table.
C34_LookupInsideTable ==
  [][(ev'.op = "hid_report" /\ hid_event_num' = hid_event_num + 1) =>
       \A i \in FreshKeys(kbd'.prev_report, kbd.prev_report) :
          table_index(kbd'.prev_report.keycode[i]) < KEYCODE_TABLE_SIZE
    ]_vars

\* ------------------------------------------------------------------------
\* SpecBurst: a keyboard that types bursts of six fresh keys, and the clock
\* ------------------------------------------------------------------------
InitBurst == InitWith({{}}, {ZeroDevice})

NextBurst ==
  \/ setup1
  \/ tuh_hid_mount_cb
  \/ Tick
  \/ \E report \in AlertReports(kbd.prev_report) :
       /\ hid_event_num < MaxRateReports
       /\ hid_window_count <= MaxWindowKeys
       /\ tuh_hid_report_received_cb(report, 0)
       /\ UNCHANGED kbd_hist
  \/ kbd_resume /\ UNCHANGED kbd_hist

SpecBurst == InitBurst /\ [][NextBurst]_vars

\* Time passes, core 1 gets through setup1 and a callback that has begun runs
\* to its end. The keyboard sends its next report when it does, or never.
LiveBurst ==
  SpecBurst /\ WF_vars(Tick) /\ WF_vars(setup1) /\ []<>(pc1 # "speed_w2")

\* the window has counted more keys than the threshold allows in a second,
\* and its second is over
BurstCounted ==
  /\ speed_over(speed_of(hid_window_count))
  /\ now - hid_window_start > HID_SPEED_WINDOW_MS
  /\ pc1 = "idle"
  /\ ~hid_speed_alert

\* C35: a burst of fresh keys that exceeds the threshold within one window
\* leads to hid_speed_alert once the window is over, whether or not a key
\* follows the burst.
C35_BurstRaisesAlert ==
  BurstCounted ~> hid_speed_alert

\* ------------------------------------------------------------------------
\* The in-place conversion against a conversion into a buffer of its own
\* ------------------------------------------------------------------------
\* the UTF-8 bytes of the first n units of the descriptor desc, each unit
\* read from desc itself
RECURSIVE Utf8Bytes(_, _)
Utf8Bytes(desc, n) ==
  IF n = 0 THEN << >>
  ELSE Utf8Bytes(desc, n - 1) \o utf8_of(unit_at(desc, n - 1))

\* C36: for a descriptor that fits the buffer with its decoded text,
\* utf16_to_utf8 leaves in the buffer the bytes that converting the units of
\* the descriptor into a separate buffer gives, followed by the terminator.
C36_InPlaceEqualsSeparate ==
  DecodedWellFormed =>
    LET n == (strbuf.desc[1] - 2) \div 2
        out == Utf8Bytes(strbuf.desc, n)
    IN  SubSeq(strbuf.mem, 1, Len(out) + 1) = out \o << 0 >>

\* ------------------------------------------------------------------------
\* SpecLatch: a host computer writing and deleting on the honeypot, loop()
\* and the RESET command
\* ------------------------------------------------------------------------
InitLatch == InitWith({{}}, {ZeroDevice})

\* a write behind the noise threshold, a tombstone in the directory block
HostWrites ==
  /\ msc_ops < MaxWrites
  /\ \/ msc_write_callback(WRITE_NOISE_LBA + 1, 1, DISK_BLOCK_SIZE)
     \/ msc_write_callback(FAT_DIRECTORY_BLOCK, 2, DISK_BLOCK_SIZE)

NextLatch ==
  \/ setup
  \/ HostWrites
  \/ \E cmd \in Commands : loop_serial(cmd)
  \/ loop_drain_end
  \/ loop_test
  \/ loop_act

SpecLatch == InitLatch /\ [][NextLatch]_vars

\* loop() shows the notification text
Surfaces(text) == ev'.op = "report" /\ pc0.act /\ current_gui_message'.text = text

\* C37: "WRITING" ("DELETING") is shown only with written_reported
\* (deleted_reported) clear, showing it sets the latch, and the latch stays
\* set until the RESET command: between boot and RESET, and between two
\* RESETs, each of the two is shown at most once, whatever is written later.
C37_WriteNoticeOncePerReset ==
  [][/\ (pc0.blk = "written" /\ Surfaces("WRITING")) =>
          (~written_reported /\ written_reported')
     /\ (pc0.blk = "deleted" /\ Surfaces("DELETING")) =>
          (~deleted_reported /\ deleted_reported')
     /\ (written_reported /\ ~written_reported') => ev'.op = "RESET"
     /\ (deleted_reported /\ ~deleted_reported') => ev'.op = "RESET"
    ]_vars

\* after the notification a later write has set the flag again, and loop()
\* has passed the block without showing it
C37_Witness ==
  /\ written_reported /\ written
  /\ pc0 = At("hid")
  /\ current_gui_message = Msg("WRITING", 0, 7)

\* ------------------------------------------------------------------------
\* SpecView: the operator at the two buttons and the shell, while a host
\* computer uses the honeypot, a device comes and goes on the host port and
\* the tamper interrupt fires
\* ------------------------------------------------------------------------
InitView == InitWith({{}}, {ZeroDevice})

\* the levels loop() may find on the buttons
Buttons ==
  \E rst_now \in BOOLEAN, ok_now \in BOOLEAN :
    /\ (rst_prev /\ ~rst_now /\ descriptor_view_active) => descriptor_page < MaxPages
    /\ loop_buttons(rst_now, ok_now)

ViewEvents ==
  \/ detectUSBKiller(TRUE)
  \/ /\ msc_ops < MaxHostOps
     /\ \/ msc_read_callback(BLOCK_README, DISK_BLOCK_SIZE)
        \/ msc_read_callback(BLOCK_AUTORUN, DISK_BLOCK_SIZE)
        \/ msc_write_callback(WRITE_NOISE_LBA + 1, 1, DISK_BLOCK_SIZE)
        \/ msc_write_callback(FAT_DIRECTORY_BLOCK, 2, DISK_BLOCK_SIZE)
  \/ tuh_mount_cb(5824, 1143, 0, 0)
  \/ print_device_descriptor(TRUE, NoStrings)
  \/ tuh_umount_cb

NextView ==
  \/ setup
  \/ setup1
  \/ ViewEvents
  \/ \E cmd \in Commands : loop_serial(cmd)
  \/ Buttons
  \/ loop_test
  \/ loop_act
  \/ loop_killer_clear

SpecView == InitView /\ [][NextView]_vars

\* what the block blk shows
NoticeOf(blk) ==
  CASE blk = "killer" -> "USB Killer"
    [] blk = "readme" -> "README (R)"
    [] blk = "autorun" -> "AUTORUN (R)"
    [] blk = "deleted" -> "DELETING"
    [] blk = "written" -> "WRITING"
    [] blk = "hid" -> "HID Sending data"
    [] blk = "susp" -> "SUSP: %s"
    [] blk = "speed" -> "AUTO k/s"

\* the handlers that take an event back: RESET and the two detach callbacks
Clears == {"RESET", "umount", "hid_umount"}

Letters(n) == [i \in 1 .. n |-> 65]

\* a device of the suspicious table whose label has 16 characters, first
\* with short strings, then with strings that fill the arrays of the record
\* (31, 47 and 15 characters), and a keyboard of no suspicion
RecordDevices ==
  { [vid |-> 9025, pid |-> 55,
     strs |-> [manufacturer |-> << 65 >>, product |-> << 66 >>, serial |-> << 49 >>]],
    [vid |-> 9025, pid |-> 55,
     strs |-> [manufacturer |-> Letters(LAST_MANUFACTURER_SIZE - 1),
               product |-> Letters(LAST_PRODUCT_SIZE - 1),
               serial |-> Letters(LAST_SERIAL_SIZE - 1)]],
    [vid |-> 1133, pid |-> 49948,
     strs |-> [manufacturer |-> << 76, 111 >>, product |-> << 75 >>, serial |-> << 49 >>]] }

InitRecord == InitWith({{}}, NoinitDevices)

NextRecord ==
  \/ setup
  \/ setup1
  \/ \E d \in RecordDevices : tuh_mount_cb(d.vid, d.pid, 0, 0)
  \/ \E d \in RecordDevices :
       /\ d.vid = dev_info.answer.vid /\ d.pid = dev_info.answer.pid
       /\ print_device_descriptor(TRUE, d.strs)
  \/ tuh_umount_cb
  \/ \E cmd \in {<< >>, WORD_CLEAR} : loop_serial(cmd)
  \/ loop_drain_end
  \/ loop_test
  \/ loop_act

SpecRecord == InitRecord /\ [][NextRecord]_vars

\* the array of size bytes into which strncpy(dst, src, size - 1) has copied
\* len bytes holds a NUL: among the bytes strncpy padded, or in its last byte
Terminated(len, size, last) == len < size - 1 \/ last = 0

\* C39: after a capture every string of the forensics record is terminated
\* within its array, whatever the record held before and however long the
\* strings of the device and the label of the match are.
C39_RecordStringsTerminated ==
  ev.op = "descriptor" =>
    /\ Terminated(Len(last_device.manufacturer), LAST_MANUFACTURER_SIZE,
                  last_device.tail.manufacturer)
    /\ Terminated(Len(last_device.product), LAST_PRODUCT_SIZE, last_device.tail.product)
    /\ Terminated(Len(last_device.serial), LAST_SERIAL_SIZE, last_device.tail.serial)
    /\ Terminated(last_device.suspicious_reason.len, LAST_REASON_SIZE,
                  last_device.tail.suspicious_reason)

\* ------------------------------------------------------------------------
\* SpecCtrl: a keyboard whose every report is a fresh press, with or without
\* CTRL, for runs longer than the counter is wide
\* ------------------------------------------------------------------------
\* a press of the key the previous report does not hold
CtrlReports(prev) ==
  {Press(m, k) : m \in {0, 1}, k \in {4, 5} \ {prev.keycode[1]}}

InitCtrl == InitWith({{}}, {ZeroDevice})

NextCtrl ==
  \/ setup1
  \/ tuh_hid_mount_cb
  \/ \E report \in CtrlReports(kbd.prev_report) :
       /\ hid_event_num < MaxCtrlReports
       /\ tuh_hid_report_received_cb(report, 0)
       /\ UNCHANGED kbd_hist

SpecCtrl == InitCtrl /\ [][NextCtrl]_vars

\* C40: after every report the filter is on exactly when the run counter is
\* at CTRL_SPURIOUS_THRESHOLD or more; the counter stays at CTRL_SEQ_MAX once
\* there and a CTRL-bearing press never lowers it, so the filter stays on
\* through a run of any length.
C40_FilterIffRunAtThreshold ==
  [][/\ kbd'.ctrl_is_spurious <=> (kbd'.ctrl_seq_count >= CTRL_SPURIOUS_THRESHOLD)
     /\ kbd'.ctrl_seq_count <= CTRL_SEQ_MAX
     /\ (hid_event_num' = hid_event_num + 1 /\ report_has_ctrl(kbd'.prev_report)
           /\ report_has_key(kbd'.prev_report)) =>
          /\ kbd'.ctrl_seq_count >= kbd.ctrl_seq_count
          /\ kbd.ctrl_seq_count = CTRL_SEQ_MAX =>
               (kbd'.ctrl_seq_count = CTRL_SEQ_MAX /\ kbd'.ctrl_is_spurious)
    ]_vars

\* a run of more CTRL-bearing presses than the counter can count
C40_Witness ==
  /\ kbd.ctrl_seq_count = CTRL_SEQ_MAX
  /\ kbd.ctrl_is_spurious
  /\ hid_event_num > CTRL_SEQ_MAX
  /\ report_has_ctrl(kbd.prev_report)

============================================================================
